---- MODULE Spec2Model ----
(***************************************************************************)
(* RageScanner: the scan engine (src/src/scanner.rs), the protocol types   *)
(* (src/src/types.rs), the probe capability (src/src/net.rs) and the      *)
(* Bridge (src/src/bridge.rs) as a state machine.                          *)
(*                                                                         *)
(* Scaling.  An IPv4 address is NumOctets octets of OctetBits bits; the   *)
(* program's 4 octets of 8 bits (a u32) are scaled to 2 octets of 1 bit,  *)
(* so that a whole-address-space scan and the wrap-around of the u32      *)
(* arithmetic are reachable.  All u32 arithmetic is taken modulo          *)
(* 2^AddrBits.  MAX_CONCURRENT_TASKS and the channel capacities are      *)
(* scaled the same way (MaxConcurrentTasks, ScannerChanCap, CmdChanCap).  *)
(*                                                                         *)
(* Ghost state.  Every event carries the number of the invocation that    *)
(* sent it (field scan); sent, uiLog, handled, admittedAtCancel,          *)
(* pcAtCancel and stopSeen are history variables, sent and uiLog kept per *)
(* invocation.                                                             *)
(* None of them is read by an action's guard or by a program variable's   *)
(* update.                                                                 *)
(***************************************************************************)
EXTENDS Integers, Sequences, FiniteSets, TLC

\* ------------------------------------------------------------- bounds
\* scaled MAX_CONCURRENT_TASKS (scanner.rs:19, 100 in the program)
MaxConcurrentTasks == 2
\* scaled capacity of the engine's event channel (bridge.rs:53, 100)
ScannerChanCap == 2
TestChanCap == 3
\* scaled capacity of the command channel (bridge.rs:38, 32)
CmdChanCap == 2
\* invocations of scan_range one behaviour may hold
MaxScans == 2
\* commands a frontend sends in one behaviour
MaxCmds == 2

\* ------------------------------------------------------- address space
\* scaled shape of Ipv4Addr: octets per address and bits per octet
NumOctets == 2
OctetBits == 1
OctetMax == 2^OctetBits - 1
AddrBits == NumOctets * OctetBits
\* 2^32 in the program: u32 arithmetic wraps (or faults) at this value
U32Modulus == 2^AddrBits
Addr == 0 .. (U32Modulus - 1)
Scans == 1 .. MaxScans

\* ------------------------------------------------------ protocol types
\* types.rs:93-110: the port numbers of COMMON_PORTS, in table order
COMMON_PORTS ==
  <<21, 22, 23, 25, 53, 80, 110, 135, 139, 443, 445, 1433, 3306, 3389, 5432, 8080>>

\* types.rs:93-110: the service labels of COMMON_PORTS, entry by entry
COMMON_LABELS ==
  <<"FTP", "SSH", "Telnet", "SMTP", "DNS", "HTTP", "POP3", "RPC/EPMAP",
    "NetBIOS", "HTTPS", "SMB", "MSSQL", "MySQL", "RDP", "PostgreSQL", "HTTP-Alt">>

\* u16::MAX: the largest port number (types.rs:113, port: u16)
U16Max == 65535

\* a lookup by range: the label of the last table entry not above the port
port_label_floor(port) ==
  LET hits == {i \in 1 .. Len(COMMON_PORTS) : COMMON_PORTS[i] <= port}
  IN  IF hits = {}
      THEN "Unknown"
      ELSE COMMON_LABELS[CHOOSE i \in hits : \A j \in hits : j <= i]

\* types.rs:113-119: port_label: iter().find() returns the first entry with
\* the port, unwrap_or the default
port_label(port) ==
  LET hits == {i \in 1 .. Len(COMMON_PORTS) : COMMON_PORTS[i] = port}
  IN  IF hits = {}
      THEN "Unknown"
      ELSE COMMON_LABELS[CHOOSE i \in hits : \A j \in hits : i <= j]

\* types.rs:60-70: ScanResult::new
NewScanResult(ip) ==
  [ip |-> ip, hostname |-> "None", mac |-> "None", vendor |-> "None",
   status |-> "Scanning", error |-> "None", open_ports |-> <<>>]

NoResult == NewScanResult(0)

\* types.rs:75-88: the BridgeMessage variants the engine and the Bridge emit.
\* scan is the ghost tag of the sending invocation (0: the Bridge itself).
MsgScanUpdate(s, r) ==
  [type |-> "ScanUpdate", scan |-> s, result |-> r, value |-> 0, error |-> "None"]
MsgProgress(s, p) ==
  [type |-> "Progress", scan |-> s, result |-> NoResult, value |-> p, error |-> "None"]
MsgScanComplete(s) ==
  [type |-> "ScanComplete", scan |-> s, result |-> NoResult, value |-> 0, error |-> "None"]
MsgScanCancelled(s) ==
  [type |-> "ScanCancelled", scan |-> s, result |-> NoResult, value |-> 0, error |-> "None"]
MsgError(s, e) ==
  [type |-> "Error", scan |-> s, result |-> NoResult, value |-> 0, error |-> e]

TerminalTypes == {"ScanComplete", "ScanCancelled", "Error"}

\* ----------------------------------------------------- probe capability
\* net.rs:48-59: what one NetworkProvider answers for one address.
\*   ping, mac, host in {"true"/"some", "false"/"none", "err"}; vendor in
\*   {"some", "none"}; open: the ports whose scan_port answers true;
\*   fault: where a call panics instead of returning ("none", "blocking": inside
\*   the spawn_blocking closure, "ports": inside scan_port);
\*   error: the GError a failing ping or resolve_mac returns.
Answer(ping, mac, host, vendor, open, fault, error) ==
  [ping |-> ping, mac |-> mac, host |-> host, vendor |-> vendor,
   open |-> open, fault |-> fault, error |-> error]

MacValue == "00:11:22:33:44:55"
HostValue == "mock-host"
VendorValue == "Mock Vendor"

\* net.rs:206-240: MockNet; 192.168.1.1 and 192.168.1.2 are the scaled
\* addresses 1 and 2.
MockNet ==
  [ip \in Addr |->
     Answer(IF ip = 1 THEN "true" ELSE IF ip = 2 THEN "err" ELSE "false",
            IF ip = 1 THEN "some" ELSE "none",
            IF ip = 1 THEN "some" ELSE "none",
            "some", {80}, "none", "Internal(Simulated Failure)")]

\* net.rs:77-183: answers NetUtils gives on a live network: ARP without ICMP,
\* ICMP without ARP, a failing SendARP (line 118), a failing IcmpCreateFile
\* (line 147).  Its resolve_hostname never returns Err (lines 132-143).
NetUtilsNet ==
  [ip \in Addr |->
     CASE ip = 0 -> Answer("false", "some", "none", "none", {443, 22}, "none", "None")
       [] ip = 1 -> Answer("true", "none", "some", "some", {}, "none", "None")
       [] ip = 2 -> Answer("true", "err", "none", "some", {80}, "none",
                           "Win32(SendARP failed)")
       [] OTHER  -> Answer("err", "none", "none", "some", {80}, "none",
                           "Win32(IcmpCreateFile failed)")]

\* a provider the trait allows: its calls can panic (scanner.rs:172-178
\* expects a JoinError) and its resolve_hostname can return Err
FaultyNet ==
  [ip \in Addr |->
     CASE ip = 0 -> Answer("true", "some", "some", "some", {22}, "blocking", "None")
       [] ip = 1 -> Answer("true", "none", "err", "some", {80}, "ports", "None")
       [] ip = 2 -> Answer("false", "some", "err", "some", {8080, 21}, "none", "None")
       [] OTHER  -> Answer("false", "none", "err", "none", {80}, "ports", "None")]

\* a provider on a segment where ARP resolves nothing: ICMP alone decides,
\* and SendARP fails for two addresses, one that answers ICMP and one that
\* does not
ArpLessNet ==
  [ip \in Addr |->
     CASE ip = 0 -> Answer("true", "none", "none", "none", {80}, "none", "None")
       [] ip = 1 -> Answer("false", "none", "none", "none", {80}, "none", "None")
       [] ip = 2 -> Answer("false", "err", "none", "none", {80}, "none",
                           "Win32(SendARP failed)")
       [] OTHER  -> Answer("true", "err", "some", "none", {80}, "none",
                           "Win32(SendARP failed)")]

Providers == {MockNet, NetUtilsNet, FaultyNet, ArpLessNet}

\* ------------------------------------------------- per-target pipeline
\* one call of a NetworkProvider method (net.rs:48-59), as the pipeline's trace
ProbeCalls(names) == [k \in 1 .. Len(names) |-> [probe |-> names[k], port |-> 0]]
PortCall(p) == [probe |-> "scan_port", port |-> p]

\* the closure with the early return of line 122 reporting the ping's answer
\* instead of true
BlockingTaskPingDecides(o) ==
  IF o.fault = "blocking"
  THEN [kind |-> "JoinError", is_online |-> FALSE, mac |-> "None",
        hostname |-> "None", vendor |-> "None", error |-> "Task failed",
        calls |-> ProbeCalls(<<"ping">>)]
  ELSE IF o.ping = "err"
  THEN [kind |-> "Err", is_online |-> FALSE, mac |-> "None", hostname |-> "None",
        vendor |-> "None", error |-> o.error, calls |-> ProbeCalls(<<"ping">>)]
  ELSE IF o.mac = "some"
  THEN [kind |-> "Ok", is_online |-> (o.ping = "true"), mac |-> MacValue,
        hostname |-> IF o.host = "some" THEN HostValue ELSE "None",
        vendor |-> IF o.vendor = "some" THEN VendorValue ELSE "None",
        error |-> "None",
        calls |-> ProbeCalls(<<"ping", "resolve_mac", "resolve_hostname", "resolve_vendor">>)]
  ELSE IF o.mac = "err"
  THEN [kind |-> "Err", is_online |-> (o.ping = "true"), mac |-> "None",
        hostname |-> "None", vendor |-> "None", error |-> o.error,
        calls |-> ProbeCalls(<<"ping", "resolve_mac">>)]
  ELSE [kind |-> "Ok", is_online |-> (o.ping = "true"), mac |-> "None",
        hostname |-> IF o.host = "some" THEN HostValue ELSE "None",
        vendor |-> "None", error |-> "None",
        calls |-> ProbeCalls(<<"ping", "resolve_mac", "resolve_hostname">>)]

\* the closure with an Err of resolve_mac (line 125) taken for Ok(None)
BlockingTaskIgnoresArpError(o) ==
  IF o.fault = "blocking"
  THEN [kind |-> "JoinError", is_online |-> FALSE, mac |-> "None",
        hostname |-> "None", vendor |-> "None", error |-> "Task failed",
        calls |-> ProbeCalls(<<"ping">>)]
  ELSE IF o.ping = "err"
  THEN [kind |-> "Err", is_online |-> FALSE, mac |-> "None", hostname |-> "None",
        vendor |-> "None", error |-> o.error, calls |-> ProbeCalls(<<"ping">>)]
  ELSE IF o.mac = "some"
  THEN [kind |-> "Ok", is_online |-> TRUE, mac |-> MacValue,
        hostname |-> IF o.host = "some" THEN HostValue ELSE "None",
        vendor |-> IF o.vendor = "some" THEN VendorValue ELSE "None",
        error |-> "None",
        calls |-> ProbeCalls(<<"ping", "resolve_mac", "resolve_hostname", "resolve_vendor">>)]
  ELSE IF o.mac = "err"
  THEN [kind |-> "Ok", is_online |-> (o.ping = "true"), mac |-> "None",
        hostname |-> IF o.host = "some" THEN HostValue ELSE "None",
        vendor |-> "None", error |-> "None",
        calls |-> ProbeCalls(<<"ping", "resolve_mac", "resolve_hostname">>)]
  ELSE [kind |-> "Ok", is_online |-> (o.ping = "true"), mac |-> "None",
        hostname |-> IF o.host = "some" THEN HostValue ELSE "None",
        vendor |-> "None", error |-> "None",
        calls |-> ProbeCalls(<<"ping", "resolve_mac", "resolve_hostname">>)]

\* the closure without the test of line 116: resolve_mac is called after a
\* failed ping too
BlockingTaskArpAfterPingError(o) ==
  IF o.fault = "blocking"
  THEN [kind |-> "JoinError", is_online |-> FALSE, mac |-> "None",
        hostname |-> "None", vendor |-> "None", error |-> "Task failed",
        calls |-> ProbeCalls(<<"ping">>)]
  ELSE IF o.ping = "err"
  THEN [kind |-> "Err", is_online |-> FALSE, mac |-> "None", hostname |-> "None",
        vendor |-> "None", error |-> o.error,
        calls |-> ProbeCalls(<<"ping", "resolve_mac">>)]
  ELSE IF o.mac = "some"
  THEN [kind |-> "Ok", is_online |-> TRUE, mac |-> MacValue,
        hostname |-> IF o.host = "some" THEN HostValue ELSE "None",
        vendor |-> IF o.vendor = "some" THEN VendorValue ELSE "None",
        error |-> "None",
        calls |-> ProbeCalls(<<"ping", "resolve_mac", "resolve_hostname", "resolve_vendor">>)]
  ELSE IF o.mac = "err"
  THEN [kind |-> "Err", is_online |-> (o.ping = "true"), mac |-> "None",
        hostname |-> "None", vendor |-> "None", error |-> o.error,
        calls |-> ProbeCalls(<<"ping", "resolve_mac">>)]
  ELSE [kind |-> "Ok", is_online |-> (o.ping = "true"), mac |-> "None",
        hostname |-> IF o.host = "some" THEN HostValue ELSE "None",
        vendor |-> "None", error |-> "None",
        calls |-> ProbeCalls(<<"ping", "resolve_mac", "resolve_hostname">>)]

\* the closure with an Err of resolve_hostname (lines 120, 132) returned as
\* the closure's error instead of unwrap_or(None)
BlockingTaskLookupEscalates(o) ==
  IF o.fault = "blocking"
  THEN [kind |-> "JoinError", is_online |-> FALSE, mac |-> "None",
        hostname |-> "None", vendor |-> "None", error |-> "Task failed",
        calls |-> ProbeCalls(<<"ping">>)]
  ELSE IF o.ping = "err"
  THEN [kind |-> "Err", is_online |-> FALSE, mac |-> "None", hostname |-> "None",
        vendor |-> "None", error |-> o.error, calls |-> ProbeCalls(<<"ping">>)]
  ELSE IF o.mac # "err" /\ o.host = "err"
  THEN [kind |-> "Err", is_online |-> FALSE, mac |-> "None", hostname |-> "None",
        vendor |-> "None", error |-> "Internal(lookup failed)",
        calls |-> ProbeCalls(<<"ping", "resolve_mac", "resolve_hostname">>)]
  ELSE IF o.mac = "some"
  THEN [kind |-> "Ok", is_online |-> TRUE, mac |-> MacValue,
        hostname |-> IF o.host = "some" THEN HostValue ELSE "None",
        vendor |-> IF o.vendor = "some" THEN VendorValue ELSE "None",
        error |-> "None",
        calls |-> ProbeCalls(<<"ping", "resolve_mac", "resolve_hostname", "resolve_vendor">>)]
  ELSE IF o.mac = "err"
  THEN [kind |-> "Err", is_online |-> (o.ping = "true"), mac |-> "None",
        hostname |-> "None", vendor |-> "None", error |-> o.error,
        calls |-> ProbeCalls(<<"ping", "resolve_mac">>)]
  ELSE [kind |-> "Ok", is_online |-> (o.ping = "true"), mac |-> "None",
        hostname |-> IF o.host = "some" THEN HostValue ELSE "None",
        vendor |-> "None", error |-> "None",
        calls |-> ProbeCalls(<<"ping", "resolve_mac", "resolve_hostname">>)]

\* scanner.rs:104-135: the spawn_blocking closure.  kind "Ok" carries
\* (is_online, mac, hostname, vendor), kind "Err" the probe's GError, kind
\* "JoinError" is a panic inside the closure.  calls are the probes called.
BlockingTask(o) ==
  IF o.fault = "blocking"
  THEN [kind |-> "JoinError", is_online |-> FALSE, mac |-> "None",
        hostname |-> "None", vendor |-> "None", error |-> "Task failed",
        calls |-> ProbeCalls(<<"ping">>)]
  ELSE IF o.ping = "err"
  THEN [kind |-> "Err", is_online |-> FALSE, mac |-> "None", hostname |-> "None",
        vendor |-> "None", error |-> o.error, calls |-> ProbeCalls(<<"ping">>)]
  ELSE IF o.mac = "some"
  THEN [kind |-> "Ok", is_online |-> TRUE, mac |-> MacValue,
        hostname |-> IF o.host = "some" THEN HostValue ELSE "None",
        vendor |-> IF o.vendor = "some" THEN VendorValue ELSE "None",
        error |-> "None",
        calls |-> ProbeCalls(<<"ping", "resolve_mac", "resolve_hostname", "resolve_vendor">>)]
  ELSE IF o.mac = "err"
  THEN [kind |-> "Err", is_online |-> (o.ping = "true"), mac |-> "None",
        hostname |-> "None", vendor |-> "None", error |-> o.error,
        calls |-> ProbeCalls(<<"ping", "resolve_mac">>)]
  ELSE [kind |-> "Ok", is_online |-> (o.ping = "true"), mac |-> "None",
        hostname |-> IF o.host = "some" THEN HostValue ELSE "None",
        vendor |-> "None", error |-> "None",
        calls |-> ProbeCalls(<<"ping", "resolve_mac", "resolve_hostname">>)]

\* the port stage with the probes answering in another order than the table's
\* (pushed as they answer, highest port first)
PortScanAsAnswered(o) ==
  LET hits == SelectSeq(COMMON_PORTS, LAMBDA p : p \in o.open)
  IN  [k \in 1 .. Len(hits) |-> hits[Len(hits) + 1 - k]]

\* scanner.rs:155-161: the ports that answered, pushed in table order
PortScan(o) == SelectSeq(COMMON_PORTS, LAMBDA p : p \in o.open)

\* the task with the status taken from the MAC instead of is_online
PipelineMacDecides(ip, o) ==
  LET b == BlockingTask(o)
      r0 == NewScanResult(ip)
  IN  CASE b.kind = "JoinError" ->
             [sent |-> TRUE,
              result |-> [r0 EXCEPT !.status = "SystemError",
                                    !.error = "Internal(Task failed)"],
              calls |-> b.calls]
        [] b.kind = "Err" ->
             [sent |-> TRUE,
              result |-> [r0 EXCEPT !.status = "SystemError", !.error = b.error],
              calls |-> b.calls]
        [] OTHER ->
             LET r1 == [r0 EXCEPT !.status = IF b.mac # "None" THEN "Online" ELSE "Offline",
                                  !.mac = b.mac, !.hostname = b.hostname,
                                  !.vendor = b.vendor]
             IN  IF ~b.is_online
                 THEN [sent |-> TRUE, result |-> r1, calls |-> b.calls]
                 ELSE IF o.fault = "ports"
                 THEN [sent |-> FALSE, result |-> r1,
                       calls |-> Append(b.calls, PortCall(COMMON_PORTS[1]))]
                 ELSE [sent |-> TRUE,
                       result |-> [r1 EXCEPT !.open_ports = PortScan(o)],
                       calls |-> b.calls \o [k \in 1 .. Len(COMMON_PORTS) |->
                                                PortCall(COMMON_PORTS[k])]]

\* the task sending the result it started with, before the port stage filled
\* it in
PipelineSendsEarly(ip, o) ==
  LET b == BlockingTask(o)
      r0 == NewScanResult(ip)
  IN  CASE b.kind = "JoinError" ->
             [sent |-> TRUE,
              result |-> [r0 EXCEPT !.status = "SystemError",
                                    !.error = "Internal(Task failed)"],
              calls |-> b.calls]
        [] b.kind = "Err" ->
             [sent |-> TRUE,
              result |-> [r0 EXCEPT !.status = "SystemError", !.error = b.error],
              calls |-> b.calls]
        [] OTHER ->
             LET r1 == [r0 EXCEPT !.status = IF b.is_online THEN "Online" ELSE "Offline",
                                  !.mac = b.mac, !.hostname = b.hostname,
                                  !.vendor = b.vendor]
             IN  IF ~b.is_online
                 THEN [sent |-> TRUE, result |-> r1, calls |-> b.calls]
                 ELSE IF o.fault = "ports"
                 THEN [sent |-> FALSE, result |-> r1,
                       calls |-> Append(b.calls, PortCall(COMMON_PORTS[1]))]
                 ELSE [sent |-> TRUE,
                       result |-> r0,
                       calls |-> b.calls \o [k \in 1 .. Len(COMMON_PORTS) |->
                                                PortCall(COMMON_PORTS[k])]]

\* the task without the test of line 153: the port stage runs for every
\* target the closure returned Ok for
PipelinePortsForAll(ip, o) ==
  LET b == BlockingTask(o)
      r0 == NewScanResult(ip)
  IN  CASE b.kind = "JoinError" ->
             [sent |-> TRUE,
              result |-> [r0 EXCEPT !.status = "SystemError",
                                    !.error = "Internal(Task failed)"],
              calls |-> b.calls]
        [] b.kind = "Err" ->
             [sent |-> TRUE,
              result |-> [r0 EXCEPT !.status = "SystemError", !.error = b.error],
              calls |-> b.calls]
        [] OTHER ->
             LET r1 == [r0 EXCEPT !.status = IF b.is_online THEN "Online" ELSE "Offline",
                                  !.mac = b.mac, !.hostname = b.hostname,
                                  !.vendor = b.vendor]
             IN  IF o.fault = "ports"
                 THEN [sent |-> FALSE, result |-> r1,
                       calls |-> Append(b.calls, PortCall(COMMON_PORTS[1]))]
                 ELSE [sent |-> TRUE,
                       result |-> [r1 EXCEPT !.open_ports = PortScan(o)],
                       calls |-> b.calls \o [k \in 1 .. Len(COMMON_PORTS) |->
                                                PortCall(COMMON_PORTS[k])]]

\* scanner.rs:98-180: one target's task.  sent: whether the task reaches one
\* of its tx.send(ScanUpdate) calls (a panic in the port stage unwinds the
\* task before line 164); result: the ScanResult it sends.
Pipeline(ip, o) ==
  LET b == BlockingTask(o)
      r0 == NewScanResult(ip)
  IN  CASE b.kind = "JoinError" ->
             [sent |-> TRUE,
              result |-> [r0 EXCEPT !.status = "SystemError",
                                    !.error = "Internal(Task failed)"],
              calls |-> b.calls]
        [] b.kind = "Err" ->
             [sent |-> TRUE,
              result |-> [r0 EXCEPT !.status = "SystemError", !.error = b.error],
              calls |-> b.calls]
        [] OTHER ->
             LET r1 == [r0 EXCEPT !.status = IF b.is_online THEN "Online" ELSE "Offline",
                                  !.mac = b.mac, !.hostname = b.hostname,
                                  !.vendor = b.vendor]
             IN  IF ~b.is_online
                 THEN [sent |-> TRUE, result |-> r1, calls |-> b.calls]
                 ELSE IF o.fault = "ports"
                 THEN [sent |-> FALSE, result |-> r1,
                       calls |-> Append(b.calls, PortCall(COMMON_PORTS[1]))]
                 ELSE [sent |-> TRUE,
                       result |-> [r1 EXCEPT !.open_ports = PortScan(o)],
                       calls |-> b.calls \o [k \in 1 .. Len(COMMON_PORTS) |->
                                                PortCall(COMMON_PORTS[k])]]

\* ---- f32 arithmetic of scanner.rs:186.  An f32 is m * 2^exp with a
\* significand m of F32Bits bits, every operation rounding its exact result
\* to the nearest such value, ties to the even significand.
F32Bits == 24

\* the least k with n * 2^k >= d
RECURSIVE ShiftUp(_, _, _)
ShiftUp(n, d, k) == IF n >= d THEN k ELSE ShiftUp(2 * n, d, k + 1)

\* the least j with n < d * 2^(j+1)
RECURSIVE ShiftDown(_, _, _)
ShiftDown(n, d, j) == IF n \div 2 < d THEN j ELSE ShiftDown(n, 2 * d, j + 1)

\* binary long division: bits more quotient bits of r / d appended to m
RECURSIVE LongDiv(_, _, _, _)
LongDiv(r, d, bits, m) ==
  IF bits = 0
  THEN [m |-> m, r |-> r]
  ELSE IF 2 * r >= d
  THEN LongDiv(2 * r - d, d, bits - 1, 2 * m + 1)
  ELSE LongDiv(2 * r, d, bits - 1, 2 * m)

\* round-to-nearest, ties to even, of m + r / d
RoundEven(m, r, d) ==
  IF 2 * r > d \/ (2 * r = d /\ m % 2 = 1) THEN m + 1 ELSE m

\* completed as f32 / total_ips as f32, for 0 < c and 0 < t (both exact in f32)
F32Div(c, t) ==
  LET k == ShiftUp(c, t, 0)
      n == c * 2^k
      j == ShiftDown(n, t, 0)
      d == t * 2^j
      q == LongDiv(n - d, d, F32Bits - 1, 1)
  IN  [m |-> RoundEven(q.m, q.r, d), exp |-> j - k - (F32Bits - 1)]

\* x * 100.0
F32Mul100(x) ==
  LET P == x.m * 100
      s == ShiftDown(P, 2^(F32Bits - 1), 0)
  IN  [m |-> RoundEven(P \div 2^s, P % 2^s, 2^s), exp |-> x.exp + s]

\* x as u8: truncation toward zero, saturating at u8::MAX
AsU8(x) ==
  IF x.exp >= 0
  THEN IF x.exp > 8 \/ x.m * 2^x.exp > 255 THEN 255 ELSE x.m * 2^x.exp
  ELSE IF -x.exp > 30
  THEN 0
  ELSE LET v == x.m \div 2^(-x.exp) IN IF v > 255 THEN 255 ELSE v

\* scanner.rs:186: (completed as f32 / total_ips as f32 * 100.0) as u8.
\* x / 0.0 is +inf and casts to 255, 0.0 / 0.0 is NaN and casts to 0.
ProgressOf(completed, total) ==
  IF total = 0
  THEN IF completed = 0 THEN 0 ELSE 255
  ELSE IF completed = 0
  THEN 0
  ELSE AsU8(F32Mul100(F32Div(completed, total)))

\* ------------------------------------------------------- range parser
\* A text is a sequence of one-character strings.
Min(S) == CHOOSE x \in S : \A y \in S : x <= y
Max(S) == CHOOSE x \in S : \A y \in S : x >= y

\* str::split(c): the segments between the occurrences of c (bridge.rs:90)
RECURSIVE Split(_, _)
Split(text, c) ==
  LET at == {k \in 1 .. Len(text) : text[k] = c}
  IN  IF at = {}
      THEN <<text>>
      ELSE <<SubSeq(text, 1, Min(at) - 1)>>
             \o Split(SubSeq(text, Min(at) + 1, Len(text)), c)

\* str::trim (bridge.rs:95, 103)
Trim(text) ==
  LET ink == {k \in 1 .. Len(text) : text[k] # " "}
  IN  IF ink = {} THEN <<>> ELSE SubSeq(text, Min(ink), Max(ink))

Digits == <<"0", "1", "2", "3", "4", "5", "6", "7", "8", "9">>
IsDigit(c) == \E d \in 1 .. 10 : Digits[d] = c
DigitValue(c) == (CHOOSE d \in 1 .. 10 : Digits[d] = c) - 1

\* the value of a digit string, kept from growing past any octet
RECURSIVE Decimal(_)
Decimal(text) ==
  IF text = <<>>
  THEN 0
  ELSE LET v == Decimal(SubSeq(text, 1, Len(text) - 1)) * 10 + DigitValue(text[Len(text)])
       IN  IF v > 1000 THEN 1000 ELSE v

\* one octet of Ipv4Addr::from_str: 1 to 3 digits, no leading zero, at most
\* the octet maximum; -1 when it is not one
ParseOctet(text) ==
  IF /\ Len(text) \in 1 .. 3
     /\ \A k \in 1 .. Len(text) : IsDigit(text[k])
     /\ (Len(text) > 1 => text[1] # "0")
     /\ Decimal(text) <= OctetMax
  THEN Decimal(text)
  ELSE -1

\* u32::from(Ipv4Addr): the octets, most significant first
RECURSIVE AddrOf(_)
AddrOf(octets) ==
  IF octets = <<>>
  THEN 0
  ELSE AddrOf(SubSeq(octets, 1, Len(octets) - 1)) * (OctetMax + 1)
         + octets[Len(octets)]

\* Ipv4Addr::octets
OctetsOf(a) ==
  [k \in 1 .. NumOctets |-> (a \div ((OctetMax + 1) ^ (NumOctets - k))) % (OctetMax + 1)]

\* Ipv4Addr::from_str (bridge.rs:96, 104): the address, or -1
ParseIpv4(text) ==
  LET parts == Split(text, ".")
  IN  IF /\ Len(parts) = NumOctets
         /\ \A k \in 1 .. NumOctets : ParseOctet(parts[k]) >= 0
      THEN AddrOf([k \in 1 .. NumOctets |-> ParseOctet(parts[k])])
      ELSE -1

\* str::parse::<u8> (bridge.rs:113): an optional '+', then digits, leading
\* zeros allowed, at most the octet maximum; -1 when it is not one
ParseU8(text) ==
  LET body == IF text # <<>> /\ text[1] = "+" THEN Tail(text) ELSE text
  IN  IF /\ body # <<>>
         /\ \A k \in 1 .. Len(body) : IsDigit(body[k])
         /\ Decimal(body) <= OctetMax
      THEN Decimal(body)
      ELSE -1

ParseOk(start, end) == [ok |-> TRUE, start |-> start, end |-> end, err |-> "None"]
ParseErr(e) == [ok |-> FALSE, start |-> 0, end |-> 0, err |-> e]

\* parse_range that hands the segments to the parsers without trimming them
parse_range_untrimmed(text) ==
  LET parts == Split(text, "-")
      start == ParseIpv4(parts[1])
  IN  IF start < 0
      THEN ParseErr("Invalid Start IP")
      ELSE IF Len(parts) = 1
      THEN ParseOk(start, start)
      ELSE LET end_part == parts[2]
               end == ParseIpv4(end_part)
               last_octet == ParseU8(end_part)
               octets == OctetsOf(start)
               end2 == AddrOf([octets EXCEPT ![NumOctets] = last_octet])
           IN  IF end >= 0
               THEN IF end < start
                    THEN ParseErr("End IP cannot be less than Start IP")
                    ELSE ParseOk(start, end)
               ELSE IF last_octet >= 0
               THEN IF end2 < start
                    THEN ParseErr("End IP cannot be less than Start IP")
                    ELSE ParseOk(start, end2)
               ELSE ParseErr("Invalid End IP or Octet")

\* parse_range that swaps an end below the start instead of refusing it
parse_range_swapping(text) ==
  LET parts == Split(text, "-")
      start == ParseIpv4(Trim(parts[1]))
  IN  IF start < 0
      THEN ParseErr("Invalid Start IP")
      ELSE IF Len(parts) = 1
      THEN ParseOk(start, start)
      ELSE LET end_part == Trim(parts[2])
               end == ParseIpv4(end_part)
               last_octet == ParseU8(end_part)
               octets == OctetsOf(start)
               end2 == AddrOf([octets EXCEPT ![NumOctets] = last_octet])
           IN  IF end >= 0
               THEN IF end < start
                    THEN ParseOk(end, start)
                    ELSE ParseOk(start, end)
               ELSE IF last_octet >= 0
               THEN IF end2 < start
                    THEN ParseOk(end2, start)
                    ELSE ParseOk(start, end2)
               ELSE ParseErr("Invalid End IP or Octet")

\* parse_range that takes a last-octet end as the whole address
parse_range_bare_octet(text) ==
  LET parts == Split(text, "-")
      start == ParseIpv4(Trim(parts[1]))
  IN  IF start < 0
      THEN ParseErr("Invalid Start IP")
      ELSE IF Len(parts) = 1
      THEN ParseOk(start, start)
      ELSE LET end_part == Trim(parts[2])
               end == ParseIpv4(end_part)
               last_octet == ParseU8(end_part)
               octets == OctetsOf(start)
               end2 == last_octet
           IN  IF end >= 0
               THEN IF end < start
                    THEN ParseErr("End IP cannot be less than Start IP")
                    ELSE ParseOk(start, end)
               ELSE IF last_octet >= 0
               THEN IF end2 < start
                    THEN ParseErr("End IP cannot be less than Start IP")
                    ELSE ParseOk(start, end2)
               ELSE ParseErr("Invalid End IP or Octet")

\* parse_range without the comparison of the end with the start
parse_range_unchecked(text) ==
  LET parts == Split(text, "-")
      start == ParseIpv4(Trim(parts[1]))
  IN  IF start < 0
      THEN ParseErr("Invalid Start IP")
      ELSE IF Len(parts) = 1
      THEN ParseOk(start, start)
      ELSE LET end_part == Trim(parts[2])
               end == ParseIpv4(end_part)
               last_octet == ParseU8(end_part)
               octets == OctetsOf(start)
               end2 == AddrOf([octets EXCEPT ![NumOctets] = last_octet])
           IN  IF end >= 0
               THEN ParseOk(start, end)
               ELSE IF last_octet >= 0
               THEN ParseOk(start, end2)
               ELSE ParseErr("Invalid End IP or Octet")

\* bridge.rs:89-127: Bridge::parse_range
parse_range(text) ==
  LET parts == Split(text, "-")
      start == ParseIpv4(Trim(parts[1]))
  IN  IF start < 0
      THEN ParseErr("Invalid Start IP")
      ELSE IF Len(parts) = 1
      THEN ParseOk(start, start)
      ELSE LET end_part == Trim(parts[2])
               end == ParseIpv4(end_part)
               last_octet == ParseU8(end_part)
               octets == OctetsOf(start)
               end2 == AddrOf([octets EXCEPT ![NumOctets] = last_octet])
           IN  IF end >= 0
               THEN IF end < start
                    THEN ParseErr("End IP cannot be less than Start IP")
                    ELSE ParseOk(start, end)
               ELSE IF last_octet >= 0
               THEN IF end2 < start
                    THEN ParseErr("End IP cannot be less than Start IP")
                    ELSE ParseOk(start, end2)
               ELSE ParseErr("Invalid End IP or Octet")

\* ---- Display of addresses and bytes (format!("{}-{}", start, end_val),
\* bridge.rs:189-192): decimal digits, no leading zero
RECURSIVE ShowDecimal(_)
ShowDecimal(n) ==
  IF n < 10
  THEN <<Digits[n + 1]>>
  ELSE Append(ShowDecimal(n \div 10), Digits[(n % 10) + 1])

RECURSIVE JoinDots(_)
JoinDots(texts) ==
  IF Len(texts) = 1
  THEN texts[1]
  ELSE texts[1] \o <<".">> \o JoinDots(Tail(texts))

\* <Ipv4Addr as Display>::fmt
ShowIpv4(a) == JoinDots([k \in 1 .. NumOctets |-> ShowDecimal(OctetsOf(a)[k])])

\* ---- the texts of the range grammar, as the frontends and the tests write
\* them (ui.rs:108, bridge.rs:136, 145, 157, 189-192): "A", "A-B" or "A-N",
\* with pads[k] blanks before the start, before the separator, after the
\* separator and after the end
PadMax == 1
Forms == {"A", "A-B", "A-N"}
Pads == [1 .. 4 -> 0 .. PadMax]
Spaces(n) == [k \in 1 .. n |-> " "]
RangeText(form, a, b, pads) ==
  Spaces(pads[1]) \o ShowIpv4(a) \o Spaces(pads[2])
    \o (IF form = "A"
        THEN <<>>
        ELSE <<"-">> \o Spaces(pads[3])
               \o (IF form = "A-B" THEN ShowIpv4(b) ELSE ShowDecimal(b))
               \o Spaces(pads[4]))

\* ------------------------------------------------------------- commands
\* types.rs:76-80: the BridgeMessage variants a frontend sends
CmdStartScan(text) == [type |-> "StartScan", text |-> text, start |-> 0, end |-> 0]
CmdStartScanRange(start, end) ==
  [type |-> "StartScanRange", text |-> <<>>, start |-> start, end |-> end]
CmdStopScan == [type |-> "StopScan", text |-> <<>>, start |-> 0, end |-> 0]

\* the texts a frontend sends: "0.1", "0.0 - 1", "1.0-0.1"
CmdTexts ==
  { <<"0", ".", "1">>,
    <<"0", ".", "0", " ", "-", " ", "1">>,
    <<"1", ".", "0", "-", "0", ".", "1">> }

Commands ==
  {CmdStartScan(t) : t \in CmdTexts}
    \cup {CmdStartScanRange(0, 1), CmdStopScan}

\* -------------------------------------------------------------- TUI App
\* tui/app.rs:35-49: App::new.  The default input "192.168.1.1-255" is the
\* scaled text "0.1"; selected is table_state.selected(), -1 for None.
\* Option<String> of an error's Display (tui/app.rs:27, bin/tui.rs:62)
NoneString == [some |-> FALSE, display_of |-> "None"]
SomeDisplay(e) == [some |-> TRUE, display_of |-> e]

AppNew ==
  [input |-> <<"0", ".", "1">>, input_mode |-> "Normal", results |-> <<>>,
   selected |-> -1, progress |-> 0, scan_state |-> "Idle", error |-> NoneString,
   show_detail |-> FALSE, should_quit |-> FALSE, filter_online |-> FALSE]

\* crossterm KeyCode values (tui/app.rs:117)
Key(code) == [code |-> code, c |-> ""]
KeyChar(c) == [code |-> "Char", c |-> c]

NoCmd == [type |-> "None", text |-> <<>>, start |-> 0, end |-> 0]

\* tui/app.rs:51-60
filtered_results(a) ==
  IF a.filter_online
  THEN SelectSeq(a.results, LAMBDA r : r.status = "Online")
  ELSE a.results

\* usize::saturating_sub(1)
SaturatingPred(n) == IF n = 0 THEN 0 ELSE n - 1

\* tui/app.rs:76-88
next_row(a) ==
  [a EXCEPT !.selected =
     IF a.selected = -1
     THEN 0
     ELSE IF a.selected >= SaturatingPred(Len(filtered_results(a)))
     THEN 0
     ELSE a.selected + 1]

\* tui/app.rs:90-102
previous_row(a) ==
  [a EXCEPT !.selected =
     IF a.selected = -1
     THEN 0
     ELSE IF a.selected = 0
     THEN SaturatingPred(Len(filtered_results(a)))
     ELSE a.selected - 1]

\* tui/app.rs:104-106: a stable sort by address
RECURSIVE InsertByIp(_, _)
InsertByIp(sorted, r) ==
  IF sorted = <<>>
  THEN <<r>>
  ELSE IF sorted[Len(sorted)].ip <= r.ip
  THEN Append(sorted, r)
  ELSE Append(InsertByIp(SubSeq(sorted, 1, Len(sorted) - 1), r), sorted[Len(sorted)])

RECURSIVE SortByIp(_)
SortByIp(rs) ==
  IF rs = <<>>
  THEN <<>>
  ELSE InsertByIp(SortByIp(SubSeq(rs, 1, Len(rs) - 1)), rs[Len(rs)])

sort_results(a) == [a EXCEPT !.results = SortByIp(a.results)]

\* start_scan that keeps the results and the error of the previous scan
start_scan_keeping(a) ==
  [app |-> [a EXCEPT !.progress = 0, !.scan_state = "Scanning"],
   cmd |-> CmdStartScan(a.input)]

\* tui/app.rs:62-70: the new App state and the command given to try_send
start_scan(a) ==
  [app |-> [a EXCEPT !.results = <<>>, !.progress = 0,
                     !.scan_state = "Scanning", !.error = NoneString],
   cmd |-> CmdStartScan(a.input)]

\* tui/app.rs:72-74
stop_scan(a) == [app |-> a, cmd |-> CmdStopScan]

Quiet(a) == [app |-> a, cmd |-> NoCmd]

\* on_key with the popup test left out: 'q' and Esc quit whenever the App is
\* not editing
on_key_quitting_from_popup(a, k) ==
  IF a.input_mode = "Editing"
  THEN CASE k.code = "Enter" -> start_scan([a EXCEPT !.input_mode = "Normal"])
         [] k.code = "Char" -> Quiet([a EXCEPT !.input = Append(@, k.c)])
         [] k.code = "Backspace" ->
              Quiet([a EXCEPT !.input = SubSeq(@, 1, SaturatingPred(Len(@)))])
         [] k.code = "Esc" -> Quiet([a EXCEPT !.input_mode = "Normal"])
         [] OTHER -> Quiet(a)
  ELSE CASE (k.code = "Char" /\ k.c = "q") \/ k.code = "Esc" ->
              Quiet([a EXCEPT !.should_quit = TRUE])
         [] k.code = "Char" /\ k.c \in {"i", "e"} ->
              Quiet([a EXCEPT !.input_mode = "Editing"])
         [] k.code = "Char" /\ k.c = "s" -> stop_scan(a)
         [] (k.code = "Char" /\ k.c = "j") \/ k.code = "Down" -> Quiet(next_row(a))
         [] (k.code = "Char" /\ k.c = "k") \/ k.code = "Up" -> Quiet(previous_row(a))
         [] k.code = "Enter" -> Quiet([a EXCEPT !.show_detail = TRUE])
         [] k.code = "Tab" -> Quiet([a EXCEPT !.filter_online = ~@])
         [] OTHER -> Quiet(a)

\* tui/app.rs:117-147: on_key: the new App state and the command given to
\* try_send, if any
on_key(a, k) ==
  IF a.input_mode = "Editing"
  THEN CASE k.code = "Enter" -> start_scan([a EXCEPT !.input_mode = "Normal"])
         [] k.code = "Char" -> Quiet([a EXCEPT !.input = Append(@, k.c)])
         [] k.code = "Backspace" ->
              Quiet([a EXCEPT !.input = SubSeq(@, 1, SaturatingPred(Len(@)))])
         [] k.code = "Esc" -> Quiet([a EXCEPT !.input_mode = "Normal"])
         [] OTHER -> Quiet(a)
  ELSE IF a.show_detail
  THEN IF k.code = "Esc" \/ (k.code = "Char" /\ k.c = "q")
       THEN Quiet([a EXCEPT !.show_detail = FALSE])
       ELSE Quiet(a)
  ELSE CASE (k.code = "Char" /\ k.c = "q") \/ k.code = "Esc" ->
              Quiet([a EXCEPT !.should_quit = TRUE])
         [] k.code = "Char" /\ k.c \in {"i", "e"} ->
              Quiet([a EXCEPT !.input_mode = "Editing"])
         [] k.code = "Char" /\ k.c = "s" -> stop_scan(a)
         [] (k.code = "Char" /\ k.c = "j") \/ k.code = "Down" -> Quiet(next_row(a))
         [] (k.code = "Char" /\ k.c = "k") \/ k.code = "Up" -> Quiet(previous_row(a))
         [] k.code = "Enter" -> Quiet([a EXCEPT !.show_detail = TRUE])
         [] k.code = "Tab" -> Quiet([a EXCEPT !.filter_online = ~@])
         [] OTHER -> Quiet(a)

\* a main loop that pushes every ScanUpdate without looking for its address
on_bridge_appending(a, msg) ==
  CASE msg.type = "ScanUpdate" ->
         [a EXCEPT !.results = Append(@, msg.result)]
    [] msg.type = "Progress" -> [a EXCEPT !.progress = msg.value]
    [] msg.type = "ScanComplete" ->
         sort_results([a EXCEPT !.scan_state = "Complete", !.progress = 100])
    [] msg.type = "ScanCancelled" -> [a EXCEPT !.scan_state = "Cancelled"]
    [] msg.type = "Error" ->
         [a EXCEPT !.scan_state = "Idle", !.error = SomeDisplay(msg.error)]
    [] OTHER -> a

\* bin/tui.rs:42-66: the main loop's handling of one message from ui_rx
on_bridge(a, msg) ==
  CASE msg.type = "ScanUpdate" ->
         LET at == {k \in 1 .. Len(a.results) : a.results[k].ip = msg.result.ip}
         IN  IF at # {}
             THEN [a EXCEPT !.results[Min(at)] = msg.result]
             ELSE [a EXCEPT !.results = Append(@, msg.result)]
    [] msg.type = "Progress" -> [a EXCEPT !.progress = msg.value]
    [] msg.type = "ScanComplete" ->
         sort_results([a EXCEPT !.scan_state = "Complete", !.progress = 100])
    [] msg.type = "ScanCancelled" -> [a EXCEPT !.scan_state = "Cancelled"]
    [] msg.type = "Error" ->
         [a EXCEPT !.scan_state = "Idle", !.error = SomeDisplay(msg.error)]
    [] OTHER -> a

\* the keys pressed and the messages received in the behaviours followed
Keys ==
  {Key("Enter"), Key("Esc"), Key("Backspace"), Key("Tab"), Key("Down"), Key("Up"),
   KeyChar("q"), KeyChar("i"), KeyChar("s")}

BridgeMsgs ==
  {MsgScanUpdate(0, [NewScanResult(ip) EXCEPT !.status = st]) :
     ip \in {0, 1}, st \in {"Online", "Offline"}}
    \cup {MsgProgress(0, 50), MsgScanComplete(0), MsgScanCancelled(0),
          MsgError(0, "Invalid Start IP")}

\* one event of the main loop (bin/tui.rs:37-67), as the ghost keeps it
NoEvent ==
  [kind |-> "None", key |-> Key("None"), msg |-> MsgScanComplete(0),
   before |-> AppNew, offered |-> NoCmd, accepted |-> FALSE]

\* ------------------------------------------------ calls of pure functions
\* one call of parse_range: the text is built from a form of the range
\* grammar ("A", "A-B", "A-N"), its addresses and the blanks put around
\* them; res is what it returned
NoParse ==
  [form |-> "none", start |-> 0, end |-> 0, pads |-> <<>>, text |-> <<>>,
   res |-> ParseErr("None")]

\* one call of port_label
NoLookup == [port |-> -1, label |-> "None"]

\* ---------------------------------------------------------------- state
VARIABLES
  cap,              \* the capacity of the channel the Scanner sends on
  net,              \* the NetworkProvider injected into the Scanner
  pc,               \* per invocation: where scan_range stands
  range,            \* per invocation: <<start_u32, end_u32>>
  total_ips,        \* per invocation: scanner.rs:66
  next_i,           \* per invocation: the loop variable i of scanner.rs:70
  permits,          \* per invocation: free permits of its Semaphore
  task,             \* per invocation and address: "none", "running", "done"
  joined,           \* per invocation: tasks join_next has returned
  completed,        \* per invocation: scanner.rs:183
  cancelled,        \* per invocation: its CancellationToken
  chan,             \* the engine's event channel (tx_bridge / scanner_rx)
  cmdq,             \* the Bridge's command channel (cmd_tx / cmd_rx)
  cmds_sent,        \* commands the frontend has sent
  sent,             \* ghost, per invocation: the events it put on chan, in order
  uiLog,            \* per origin (0: the Bridge): the messages put on ui_tx, in order
  handled,          \* ghost: the commands the Bridge loop has received
  admittedAtCancel, \* ghost: tasks spawned when the token was cancelled
  pcAtCancel,       \* ghost: where scan_range stood when the token was cancelled
  stopSeen,         \* ghost: a StopScan reached the Bridge while active
  app,              \* the TUI's App (tui/app.rs:20-32)
  app_events,       \* events the TUI main loop has handled
  app_last,         \* ghost: the last of them, the App before it, the command it offered
  parsed,           \* the last call of parse_range and its result
  looked            \* the last call of port_label and its result

engineVars ==
  <<pc, range, total_ips, next_i, permits, task, joined, completed>>
bridgeVars == <<cmdq, cmds_sent, uiLog, handled, stopSeen>>
tuiVars == <<app, app_events, app_last>>
callVars == <<parsed, looked>>
vars ==
  <<cap, net, pc, range, total_ips, next_i, permits, task, joined,
    completed, cancelled, chan, cmdq, cmds_sent, sent, uiLog, handled,
    admittedAtCancel, pcAtCancel, stopSeen, app, app_events, app_last,
    parsed, looked>>

Boot(c) ==
  /\ cap = c
  /\ net \in Providers
  /\ pc = [s \in Scans |-> "idle"]
  /\ range = [s \in Scans |-> <<0, 0>>]
  /\ total_ips = [s \in Scans |-> 0]
  /\ next_i = [s \in Scans |-> 0]
  /\ permits = [s \in Scans |-> 0]
  /\ task = [s \in Scans |-> [ip \in Addr |-> "none"]]
  /\ joined = [s \in Scans |-> 0]
  /\ completed = [s \in Scans |-> 0]
  /\ cancelled = [s \in Scans |-> FALSE]
  /\ chan = <<>>
  /\ cmdq = <<>>
  /\ cmds_sent = 0
  /\ sent = [s \in Scans |-> <<>>]
  /\ uiLog = [s \in 0 .. MaxScans |-> <<>>]
  /\ handled = <<>>
  /\ admittedAtCancel = [s \in Scans |-> -1]
  /\ pcAtCancel = [s \in Scans |-> "none"]
  /\ stopSeen = [s \in Scans |-> FALSE]
  /\ app = AppNew
  /\ app_events = 0
  /\ app_last = NoEvent
  /\ parsed = NoParse
  /\ looked = NoLookup

\* the engine on the channel its owner made (bridge.rs:36)
Init == Boot(ScannerChanCap)

Spawned(s) == {ip \in Addr : task[s][ip] # "none"}
InFlight(s) == {ip \in Addr : task[s][ip] = "running"}
Finished(s) == {ip \in Addr : task[s][ip] = "done"}
Active(s) == pc[s] \notin {"idle", "returned", "panicked"}

\* a channel that keeps one of its slots free
RoomKeepingOne == Len(chan) + 1 < cap

\* tokio mpsc Sender::send: waits for room, then queues the message
Room == Len(chan) < cap
Send(m) ==
  /\ chan' = Append(chan, m)
  /\ sent' = [sent EXCEPT ![m.scan] = Append(@, m)]

\* ------------------------------------------------------ the scan engine
\* Validate with the range check of scanner.rs:50 left out: the empty
\* range start..=end spawns nothing and the invocation reports completion
ValidateWithoutRangeCheck(s) ==
  /\ pc[s] = "start"
  /\ LET start == range[s][1]
         end == range[s][2]
     IN  /\ total_ips' = [total_ips EXCEPT ![s] = (end - start + 1) % U32Modulus]
         /\ permits' = [permits EXCEPT ![s] = MaxConcurrentTasks]
         /\ next_i' = [next_i EXCEPT ![s] = start]
         /\ pc' = [pc EXCEPT ![s] = IF start > end THEN "join" ELSE "check"]
  /\ UNCHANGED <<cap, net, range, task, joined, completed, cancelled,
                 chan, sent, admittedAtCancel, pcAtCancel>>
  /\ UNCHANGED bridgeVars
  /\ UNCHANGED <<tuiVars, callVars>>

\* scanner.rs:46-68: validation, total_ips, the semaphore.  For the whole
\* address space end - start + 1 exceeds u32: a build with overflow checks (the
\* dev profile) panics there, a build without (the release profile) wraps to 0.
\* The build is not part of the state: either outcome can be taken.
Validate(s) ==
  /\ pc[s] = "start"
  /\ LET start == range[s][1]
         end == range[s][2]
     IN  IF start > end
         THEN /\ pc' = [pc EXCEPT ![s] = "error"]
              /\ UNCHANGED <<total_ips, next_i, permits>>
         ELSE \/ /\ end - start + 1 >= U32Modulus
                 /\ pc' = [pc EXCEPT ![s] = "panicked"]
                 /\ UNCHANGED <<total_ips, next_i, permits>>
              \/ /\ total_ips' = [total_ips EXCEPT ![s] = (end - start + 1) % U32Modulus]
                 /\ permits' = [permits EXCEPT ![s] = MaxConcurrentTasks]
                 /\ next_i' = [next_i EXCEPT ![s] = start]
                 /\ pc' = [pc EXCEPT ![s] = "check"]
  /\ UNCHANGED <<cap, net, range, task, joined, completed, cancelled,
                 chan, sent, admittedAtCancel, pcAtCancel>>
  /\ UNCHANGED bridgeVars
  /\ UNCHANGED <<tuiVars, callVars>>

\* scanner.rs:70-75: the cancellation check that opens every iteration
CheckCancel(s) ==
  /\ pc[s] = "check"
  /\ pc' = [pc EXCEPT ![s] = IF cancelled[s] THEN "join" ELSE "acquire"]
  /\ UNCHANGED <<cap, net, range, total_ips, next_i, permits, task,
                 joined, completed, cancelled, chan, sent, admittedAtCancel, pcAtCancel>>
  /\ UNCHANGED bridgeVars
  /\ UNCHANGED <<tuiVars, callVars>>

\* Admit without the wait for a permit (tasks.spawn before acquire_owned)
AdmitWithoutPermit(s) ==
  /\ pc[s] = "acquire"
  /\ permits' = [permits EXCEPT ![s] = @ - 1]
  /\ task' = [task EXCEPT ![s][next_i[s]] = "running"]
  /\ IF next_i[s] = range[s][2]
     THEN pc' = [pc EXCEPT ![s] = "join"] /\ UNCHANGED next_i
     ELSE pc' = [pc EXCEPT ![s] = "check"] /\ next_i' = [next_i EXCEPT ![s] = @ + 1]
  /\ UNCHANGED <<cap, net, range, total_ips, joined, completed,
                 cancelled, chan, sent, admittedAtCancel, pcAtCancel>>
  /\ UNCHANGED bridgeVars
  /\ UNCHANGED <<tuiVars, callVars>>

\* scanner.rs:77-99: acquire_owned().await, then tasks.spawn.  Nothing closes
\* the semaphore, so the Err arm of lines 83-92 is never taken.
Admit(s) ==
  /\ pc[s] = "acquire"
  /\ permits[s] > 0
  /\ permits' = [permits EXCEPT ![s] = @ - 1]
  /\ task' = [task EXCEPT ![s][next_i[s]] = "running"]
  /\ IF next_i[s] = range[s][2]
     THEN pc' = [pc EXCEPT ![s] = "join"] /\ UNCHANGED next_i
     ELSE pc' = [pc EXCEPT ![s] = "check"] /\ next_i' = [next_i EXCEPT ![s] = @ + 1]
  /\ UNCHANGED <<cap, net, range, total_ips, joined, completed,
                 cancelled, chan, sent, admittedAtCancel, pcAtCancel>>
  /\ UNCHANGED bridgeVars
  /\ UNCHANGED <<tuiVars, callVars>>

\* a task that gives its permit back after its send only, so that a task
\* unwound by a panic keeps it
RunPipelineLeaking(s, ip) ==
  /\ task[s][ip] = "running"
  /\ LET out == Pipeline(ip, net[ip])
     IN  IF out.sent
         THEN Room /\ Send(MsgScanUpdate(s, out.result))
         ELSE UNCHANGED <<chan, sent>>
  /\ task' = [task EXCEPT ![s][ip] = "done"]
  /\ permits' = [permits EXCEPT ![s] = IF Pipeline(ip, net[ip]).sent THEN @ + 1 ELSE @]
  /\ UNCHANGED <<cap, net, pc, range, total_ips, next_i, joined,
                 completed, cancelled, admittedAtCancel, pcAtCancel>>
  /\ UNCHANGED bridgeVars
  /\ UNCHANGED <<tuiVars, callVars>>

\* scanner.rs:98-180: one spawned task, from its probes to its ScanUpdate;
\* the permit is dropped when the task ends.
RunPipeline(s, ip) ==
  /\ task[s][ip] = "running"
  /\ LET out == Pipeline(ip, net[ip])
     IN  IF out.sent
         THEN Room /\ Send(MsgScanUpdate(s, out.result))
         ELSE UNCHANGED <<chan, sent>>
  /\ task' = [task EXCEPT ![s][ip] = "done"]
  /\ permits' = [permits EXCEPT ![s] = @ + 1]
  /\ UNCHANGED <<cap, net, pc, range, total_ips, next_i, joined,
                 completed, cancelled, admittedAtCancel, pcAtCancel>>
  /\ UNCHANGED bridgeVars
  /\ UNCHANGED <<tuiVars, callVars>>

\* scanner.rs:184-188: one join_next that returns a task, and its Progress
JoinNext(s) ==
  /\ pc[s] = "join"
  /\ joined[s] < Cardinality(Finished(s))
  /\ Room
  /\ LET c == (completed[s] + 1) % U32Modulus
     IN  /\ completed' = [completed EXCEPT ![s] = c]
         /\ Send(MsgProgress(s, ProgressOf(c, total_ips[s])))
  /\ joined' = [joined EXCEPT ![s] = @ + 1]
  /\ UNCHANGED <<cap, net, pc, range, total_ips, next_i, permits,
                 task, cancelled, admittedAtCancel, pcAtCancel>>
  /\ UNCHANGED bridgeVars
  /\ UNCHANGED <<tuiVars, callVars>>

\* JoinDone that leaves the join loop as soon as no finished task is pending,
\* without waiting for the tasks still running
JoinDoneWithoutWaiting(s) ==
  /\ pc[s] = "join"
  /\ joined[s] = Cardinality(Finished(s))
  /\ pc' = [pc EXCEPT ![s] = IF cancelled[s] THEN "cancelled" ELSE "complete"]
  /\ UNCHANGED <<cap, net, range, total_ips, next_i, permits, task,
                 joined, completed, cancelled, chan, sent, admittedAtCancel, pcAtCancel>>
  /\ UNCHANGED bridgeVars
  /\ UNCHANGED <<tuiVars, callVars>>

\* scanner.rs:184,190: join_next returns None (the set is empty), and the
\* token is read once more
JoinDone(s) ==
  /\ pc[s] = "join"
  /\ joined[s] = Cardinality(Spawned(s))
  /\ pc' = [pc EXCEPT ![s] = IF cancelled[s] THEN "cancelled" ELSE "complete"]
  /\ UNCHANGED <<cap, net, range, total_ips, next_i, permits, task,
                 joined, completed, cancelled, chan, sent, admittedAtCancel, pcAtCancel>>
  /\ UNCHANGED bridgeVars
  /\ UNCHANGED <<tuiVars, callVars>>

\* scanner.rs:51-57, 192, 195: the send of the invocation's last event
SendTerminal(s) ==
  /\ pc[s] \in {"error", "cancelled", "complete"}
  /\ Room
  /\ Send(CASE pc[s] = "error" -> MsgError(s, "Internal(Invalid IP Range)")
            [] pc[s] = "cancelled" -> MsgScanCancelled(s)
            [] OTHER -> MsgScanComplete(s))
  /\ pc' = [pc EXCEPT ![s] = "returned"]
  /\ UNCHANGED <<cap, net, range, total_ips, next_i, permits, task,
                 joined, completed, cancelled, admittedAtCancel, pcAtCancel>>
  /\ UNCHANGED bridgeVars
  /\ UNCHANGED <<tuiVars, callVars>>

Engine(s) ==
  \/ Validate(s)
  \/ CheckCancel(s)
  \/ Admit(s)
  \/ \E ip \in Addr : RunPipeline(s, ip)
  \/ JoinNext(s)
  \/ JoinDone(s)
  \/ SendTerminal(s)

\* ------------------------------------- scan_range called by a test or caller
\* scanner.rs:40-45, 215: a caller awaits scan_range(start_ip, end_ip, token)
CallScanRange(start, end) ==
  /\ pc[1] = "idle"
  /\ pc' = [pc EXCEPT ![1] = "start"]
  /\ range' = [range EXCEPT ![1] = <<start, end>>]
  /\ UNCHANGED <<cap, net, total_ips, next_i, permits, task, joined,
                 completed, cancelled, chan, sent, admittedAtCancel, pcAtCancel>>
  /\ UNCHANGED bridgeVars
  /\ UNCHANGED <<tuiVars, callVars>>

\* the holder of the CancellationToken calls cancel() (scanner.rs:44)
Cancel(s) ==
  /\ Active(s)
  /\ ~cancelled[s]
  /\ cancelled' = [cancelled EXCEPT ![s] = TRUE]
  /\ admittedAtCancel' = [admittedAtCancel EXCEPT ![s] = Cardinality(Spawned(s))]
  /\ pcAtCancel' = [pcAtCancel EXCEPT ![s] = pc[s]]
  /\ UNCHANGED <<cap, net, chan, sent>>
  /\ UNCHANGED engineVars
  /\ UNCHANGED bridgeVars
  /\ UNCHANGED <<tuiVars, callVars>>

\* scanner.rs:221: the holder of the channel's Receiver takes one message
Recv ==
  /\ chan # <<>>
  /\ chan' = Tail(chan)
  /\ UNCHANGED <<cap, net, cancelled, sent, admittedAtCancel, pcAtCancel>>
  /\ UNCHANGED engineVars
  /\ UNCHANGED bridgeVars
  /\ UNCHANGED <<tuiVars, callVars>>

Next ==
  \/ \E start, end \in Addr : CallScanRange(start, end)
  \/ Engine(1)
  \/ Cancel(1)
  \/ Recv

Spec == Init /\ [][Next]_vars

\* scanner.rs:206-217: the unit test makes the channel, calls scan_range
\* with a token nobody cancels and awaits it to the end before its first
\* recv.  TestChanCap stands for the test's channel(100): room for the events
\* of one target and not of two.
AwaitInit == Boot(TestChanCap)

AwaitNext ==
  \/ \E start, end \in Addr : CallScanRange(start, end)
  \/ Engine(1)

AwaitSpec == AwaitInit /\ [][AwaitNext]_vars

\* The steps of JoinNext(s), told by what they do to the count of joined
\* tasks, whatever value the Progress carries: within Next they are the
\* steps of JoinNext(s) and are enabled when it is.
JoinNextTaken(s) ==
  /\ pc[s] = "join"
  /\ joined[s] < Cardinality(Finished(s))
  /\ Room
  /\ joined' = [joined EXCEPT ![s] = @ + 1]
  /\ completed' = [completed EXCEPT ![s] = (@ + 1) % U32Modulus]
  /\ \E v \in 0 .. 255 : Send(MsgProgress(s, v))
  /\ UNCHANGED <<cap, net, pc, range, total_ips, next_i, permits,
                 task, cancelled, admittedAtCancel, pcAtCancel>>
  /\ UNCHANGED bridgeVars
  /\ UNCHANGED <<tuiVars, callVars>>

\* the other steps of scan_range and of its tasks
EngineButJoinNext(s) ==
  \/ Validate(s)
  \/ CheckCancel(s)
  \/ Admit(s)
  \/ \E ip \in Addr : RunPipeline(s, ip)
  \/ JoinDone(s)
  \/ SendTerminal(s)

\* The same behaviours under the scheduling the runtime gives: the tokio
\* scheduler polls every task that can go on (scan_range's own future and
\* the spawned tasks, scanner.rs:98, 184), and the holder of the Receiver
\* keeps receiving (bridge.rs:56-60, scanner.rs:221).  Cancellation and the
\* call itself are left to the caller.
FairSpec ==
  /\ Spec
  /\ WF_vars(EngineButJoinNext(1))
  /\ WF_vars(JoinNextTaken(1))
  /\ WF_vars(Recv)

\* ------------------------------------- the join loop over a wide range
\* The join loop of scanner.rs:183-196 on its own, for a range of up to
\* MaxTotal targets (more than the scaled address space holds): the JoinSet
\* is a count of total_ips tasks, all of them spawned and finished, no
\* cancellation.
MaxTotal == 100

JoinLoopInit ==
  /\ cap = ScannerChanCap
  /\ net = MockNet
  /\ \E n \in 1 .. MaxTotal :
       /\ total_ips = [s \in Scans |-> IF s = 1 THEN n ELSE 0]
       /\ range = [s \in Scans |-> IF s = 1 THEN <<0, n - 1>> ELSE <<0, 0>>]
  /\ pc = [s \in Scans |-> IF s = 1 THEN "join" ELSE "idle"]
  /\ next_i = [s \in Scans |-> 0]
  /\ permits = [s \in Scans |-> MaxConcurrentTasks]
  /\ task = [s \in Scans |-> [ip \in Addr |-> "none"]]
  /\ joined = [s \in Scans |-> 0]
  /\ completed = [s \in Scans |-> 0]
  /\ cancelled = [s \in Scans |-> FALSE]
  /\ chan = <<>>
  /\ cmdq = <<>>
  /\ cmds_sent = 0
  /\ sent = [s \in Scans |-> <<>>]
  /\ uiLog = [s \in 0 .. MaxScans |-> <<>>]
  /\ handled = <<>>
  /\ admittedAtCancel = [s \in Scans |-> -1]
  /\ pcAtCancel = [s \in Scans |-> "none"]
  /\ stopSeen = [s \in Scans |-> FALSE]
  /\ app = AppNew
  /\ app_events = 0
  /\ app_last = NoEvent
  /\ parsed = NoParse
  /\ looked = NoLookup

\* scanner.rs:184-187: join_next() returns Some, one Progress is sent
JoinLoopNext(s) ==
  /\ pc[s] = "join"
  /\ joined[s] < total_ips[s]
  /\ Room
  /\ LET c == completed[s] + 1
     IN  /\ completed' = [completed EXCEPT ![s] = c]
         /\ Send(MsgProgress(s, ProgressOf(c, total_ips[s])))
  /\ joined' = [joined EXCEPT ![s] = @ + 1]
  /\ UNCHANGED <<cap, net, pc, range, total_ips, next_i, permits,
                 task, cancelled, admittedAtCancel, pcAtCancel>>
  /\ UNCHANGED bridgeVars
  /\ UNCHANGED <<tuiVars, callVars>>

\* scanner.rs:184,190: join_next() returns None, the token is not cancelled
JoinLoopDone(s) ==
  /\ pc[s] = "join"
  /\ joined[s] = total_ips[s]
  /\ pc' = [pc EXCEPT ![s] = "complete"]
  /\ UNCHANGED <<cap, net, range, total_ips, next_i, permits, task, joined,
                 completed, cancelled, chan, sent, admittedAtCancel, pcAtCancel>>
  /\ UNCHANGED bridgeVars
  /\ UNCHANGED <<tuiVars, callVars>>

JoinLoopStep ==
  \/ JoinLoopNext(1)
  \/ JoinLoopDone(1)
  \/ SendTerminal(1)
  \/ Recv

JoinLoopSpec == JoinLoopInit /\ [][JoinLoopStep]_vars

\* ------------------------------------------------- calls of parse_range
\* bridge.rs:68 and the tests at bridge.rs:135-206: parse_range is called on
\* a text of the grammar; the call and what it returned are kept.  One call
\* is followed: parse_range keeps nothing between calls.
CallParseRange(form, a, b, pads) ==
  /\ parsed = NoParse
  /\ parsed' = [form |-> form, start |-> a, end |-> b, pads |-> pads,
                text |-> RangeText(form, a, b, pads),
                res |-> parse_range(RangeText(form, a, b, pads))]
  /\ UNCHANGED <<cap, net, cancelled, chan, sent, admittedAtCancel, pcAtCancel>>
  /\ UNCHANGED engineVars
  /\ UNCHANGED bridgeVars
  /\ UNCHANGED <<tuiVars, looked>>

\* texts outside the grammar: a text of the form "A-B" or "A-N" followed by
\* one more separator and segment; no text at all; a start or an end that is
\* neither an address nor a byte; a separator with nothing on one side
NoPads == [k \in 1 .. 4 |-> 0]
Junk == {<<>>, <<"1">>, <<"0", ".", "1">>, <<"x">>}
OverlongTexts ==
  {RangeText("A-B", a, b, NoPads) \o <<"-">> \o t : a \in Addr, b \in Addr, t \in Junk}
    \cup {RangeText("A-N", a, n, NoPads) \o <<"-">> \o t :
            a \in Addr, n \in 0 .. OctetMax, t \in Junk}
MalformedTexts ==
  { <<>>,
    <<"x">>,
    <<"0", ".", "1", "-", "x">>,
    <<"0", ".", "1", "-">>,
    <<"-", "0", ".", "1">>,
    <<"x", "-", "0", ".", "1">>,
    <<"0", ".", "1", " ", "1">>,
    <<"0", ".", "1", ".", "0">>,
    <<"0", " ", ".", "1">> }
OtherTexts == OverlongTexts \cup MalformedTexts

\* bridge.rs:68 and the tests at bridge.rs:165-171: parse_range is called on
\* a text outside the grammar
CallParseOther(text) ==
  /\ parsed = NoParse
  /\ parsed' = [form |-> "other", start |-> 0, end |-> 0, pads |-> NoPads,
                text |-> text, res |-> parse_range(text)]
  /\ UNCHANGED <<cap, net, cancelled, chan, sent, admittedAtCancel, pcAtCancel>>
  /\ UNCHANGED engineVars
  /\ UNCHANGED bridgeVars
  /\ UNCHANGED <<tuiVars, looked>>

ParseNext ==
  \/ \E a \in Addr, p \in Pads : CallParseRange("A", a, a, p)
  \/ \E a \in Addr, b \in Addr, p \in Pads : CallParseRange("A-B", a, b, p)
  \/ \E a \in Addr, n \in 0 .. OctetMax, p \in Pads : CallParseRange("A-N", a, n, p)
  \/ \E text \in OtherTexts : CallParseOther(text)

ParseInit == Init /\ net = NetUtilsNet

ParseSpec == ParseInit /\ [][ParseNext]_vars

\* -------------------------------------------------- calls of port_label
\* types.rs:113: port_label is called on a port, any u16; the call and the
\* label it returned are kept.  One call is followed.
CallPortLabel(port) ==
  /\ looked' = [port |-> port, label |-> port_label(port)]
  /\ UNCHANGED <<cap, net, cancelled, chan, sent, admittedAtCancel, pcAtCancel>>
  /\ UNCHANGED engineVars
  /\ UNCHANGED bridgeVars
  /\ UNCHANGED <<tuiVars, parsed>>

PortLabelNext ==
  /\ looked = NoLookup
  /\ \E port \in 0 .. U16Max : CallPortLabel(port)

PortLabelInit == Init /\ net = NetUtilsNet

PortLabelSpec == PortLabelInit /\ [][PortLabelNext]_vars

\* ----------------------------------------------------- the TUI main loop
MaxAppEvents == 4

\* bin/tui.rs:38-40: a key event reaches on_key.  The command on_key builds
\* goes to cmd_tx.try_send (tui/app.rs:67-69, 73), which puts it on the
\* channel when there is room and drops it otherwise.  The loop ends once
\* should_quit is set (bin/tui.rs:69-71).
AppKey(k) ==
  /\ ~app.should_quit
  /\ app_events < MaxAppEvents
  /\ LET out == on_key(app, k)
         room == Len(cmdq) < CmdChanCap
     IN  /\ app' = out.app
         /\ cmdq' = IF out.cmd # NoCmd /\ room THEN Append(cmdq, out.cmd) ELSE cmdq
         /\ app_last' = [kind |-> "Input", key |-> k, msg |-> NoEvent.msg,
                         before |-> app, offered |-> out.cmd,
                         accepted |-> (out.cmd # NoCmd /\ room)]
  /\ app_events' = app_events + 1
  /\ UNCHANGED <<cap, net, cancelled, chan, sent, admittedAtCancel, pcAtCancel,
                 cmds_sent, uiLog, handled, stopSeen>>
  /\ UNCHANGED engineVars
  /\ UNCHANGED callVars

\* bin/tui.rs:42-66: a message of the Bridge reaches the App
AppBridge(msg) ==
  /\ ~app.should_quit
  /\ app_events < MaxAppEvents
  /\ app' = on_bridge(app, msg)
  /\ app_last' = [kind |-> "Bridge", key |-> NoEvent.key, msg |-> msg,
                  before |-> app, offered |-> NoCmd, accepted |-> FALSE]
  /\ app_events' = app_events + 1
  /\ UNCHANGED <<cap, net, cancelled, chan, sent, admittedAtCancel, pcAtCancel>>
  /\ UNCHANGED engineVars
  /\ UNCHANGED bridgeVars
  /\ UNCHANGED callVars

AppNext ==
  \/ \E k \in Keys : AppKey(k)
  \/ \E msg \in BridgeMsgs : AppBridge(msg)

AppInit == Init /\ net = NetUtilsNet

AppSpec == AppInit /\ [][AppNext]_vars

\* ------------------------------------------------------------ the Bridge
\* lib.rs:20, tui_poc.rs:15: a frontend puts a command on cmd_tx
FrontendSend(c) ==
  /\ cmds_sent < MaxCmds
  /\ Len(cmdq) < CmdChanCap
  /\ cmdq' = Append(cmdq, c)
  /\ cmds_sent' = cmds_sent + 1
  /\ UNCHANGED <<cap, net, cancelled, chan, sent, admittedAtCancel, pcAtCancel,
                 uiLog, handled, stopSeen>>
  /\ UNCHANGED engineVars
  /\ UNCHANGED <<tuiVars, callVars>>

\* a command loop that drops a StartScan whose text does not parse without
\* reporting it
BridgeRecvSilent ==
  /\ cmdq # <<>>
  /\ LET c == Head(cmdq)
         r == parse_range(c.text)
         free == {s \in Scans : pc[s] = "idle"}
     IN  /\ cmdq' = Tail(cmdq)
         /\ handled' = Append(handled, c)
         /\ stopSeen' = [s \in Scans |->
                           stopSeen[s] \/ (c.type = "StopScan" /\ Active(s))]
         /\ IF c.type = "StartScan" /\ r.ok
            THEN /\ free # {}
                 /\ pc' = [pc EXCEPT ![Min(free)] = "start"]
                 /\ range' = [range EXCEPT ![Min(free)] = <<r.start, r.end>>]
                 /\ UNCHANGED uiLog
            ELSE IF c.type = "StartScan"
            THEN UNCHANGED <<pc, range, uiLog>>
            ELSE UNCHANGED <<pc, range, uiLog>>
  /\ UNCHANGED <<cap, net, total_ips, next_i, permits, task, joined,
                 completed, cancelled, chan, sent, admittedAtCancel, pcAtCancel, cmds_sent>>
  /\ UNCHANGED <<tuiVars, callVars>>

\* bridge.rs:66-80: one turn of the command loop.  StartScan(text) is parsed
\* and either spawns scan_range or reports the parse error; any other
\* command falls through the if-let.  The spawned invocation takes the first
\* unused slot; its token is held by nobody.
BridgeRecv ==
  /\ cmdq # <<>>
  /\ LET c == Head(cmdq)
         r == parse_range(c.text)
         free == {s \in Scans : pc[s] = "idle"}
     IN  /\ cmdq' = Tail(cmdq)
         /\ handled' = Append(handled, c)
         /\ stopSeen' = [s \in Scans |->
                           stopSeen[s] \/ (c.type = "StopScan" /\ Active(s))]
         /\ IF c.type = "StartScan" /\ r.ok
            THEN /\ free # {}
                 /\ pc' = [pc EXCEPT ![Min(free)] = "start"]
                 /\ range' = [range EXCEPT ![Min(free)] = <<r.start, r.end>>]
                 /\ UNCHANGED uiLog
            ELSE IF c.type = "StartScan"
            THEN /\ uiLog' = [uiLog EXCEPT ![0] = Append(@, MsgError(0, r.err))]
                 /\ UNCHANGED <<pc, range>>
            ELSE UNCHANGED <<pc, range, uiLog>>
  /\ UNCHANGED <<cap, net, total_ips, next_i, permits, task, joined,
                 completed, cancelled, chan, sent, admittedAtCancel, pcAtCancel, cmds_sent>>
  /\ UNCHANGED <<tuiVars, callVars>>

\* Relay that takes the event off the channel and loses it (a try_send on a
\* full outward channel)
RelayDropping ==
  /\ chan # <<>>
  /\ chan' = Tail(chan)
  /\ UNCHANGED <<cap, net, cancelled, sent, admittedAtCancel, pcAtCancel, cmdq,
                 cmds_sent, uiLog, handled, stopSeen>>
  /\ UNCHANGED engineVars
  /\ UNCHANGED <<tuiVars, callVars>>

\* bridge.rs:56-60: the relay task moves one engine event to ui_tx.  ui_tx is
\* unbounded (bridge.rs:37): its send never waits for the frontend, so the
\* channel is kept as what was put on it.
Relay ==
  /\ chan # <<>>
  /\ chan' = Tail(chan)
  /\ uiLog' = [uiLog EXCEPT ![Head(chan).scan] = Append(@, Head(chan))]
  /\ UNCHANGED <<cap, net, cancelled, sent, admittedAtCancel, pcAtCancel, cmdq,
                 cmds_sent, handled, stopSeen>>
  /\ UNCHANGED engineVars
  /\ UNCHANGED <<tuiVars, callVars>>

BridgeNext ==
  \/ \E c \in Commands : FrontendSend(c)
  \/ BridgeRecv
  \/ \E s \in Scans : Engine(s)
  \/ Relay

\* bridge.rs:63: the Bridge always injects NetUtils
BridgeInit == Init /\ net = NetUtilsNet

BridgeSpec == BridgeInit /\ [][BridgeNext]_vars

\* ================================================================ claims
\* what invocation s has sent, by kind
Updates(s) == SelectSeq(sent[s], LAMBDA m : m.type = "ScanUpdate")
UpdateIps(s) ==
  {sent[s][k].result.ip :
     k \in {j \in 1 .. Len(sent[s]) : sent[s][j].type = "ScanUpdate"}}
Terminals(s) == SelectSeq(sent[s], LAMBDA m : m.type \in TerminalTypes)
ProgressEvents(s) == SelectSeq(sent[s], LAMBDA m : m.type = "Progress")
LastSent(s) == sent[s][Len(sent[s])]
Targets(s) == range[s][1] .. range[s][2]
Over(s) == pc[s] \in {"returned", "panicked"}
\* every probe called for a target of s returns (no call panics)
ProbesReturn(s) == \A ip \in Targets(s) : net[ip].fault = "none"
WholeAddressSpace(s) == range[s][2] - range[s][1] + 1 >= U32Modulus

\* ------------------------------------------------------------------- C1
\* C1 (as claimed): once an invocation on a range start <= end is over, with
\* no cancellation and every probe returning, it has sent one ScanUpdate for
\* every address of the range and for no other, end - start + 1 in all, and
\* exactly one terminal event, ScanComplete or ScanCancelled, after them.
C1_EveryTargetReportedThenTerminal ==
  \A s \in Scans :
    (Over(s) /\ range[s][1] <= range[s][2] /\ ~cancelled[s] /\ ProbesReturn(s)) =>
      /\ UpdateIps(s) = Targets(s)
      /\ Len(Updates(s)) = range[s][2] - range[s][1] + 1
      /\ Len(Terminals(s)) = 1
      /\ LastSent(s).type \in {"ScanComplete", "ScanCancelled"}

\* C1 holds of every range but the whole address space
C1_HoldsBelowWholeAddressSpace ==
  \A s \in Scans :
    (Over(s) /\ range[s][1] <= range[s][2] /\ ~cancelled[s] /\ ProbesReturn(s)
       /\ ~WholeAddressSpace(s)) =>
      /\ UpdateIps(s) = Targets(s)
      /\ Len(Updates(s)) = range[s][2] - range[s][1] + 1
      /\ Len(Terminals(s)) = 1
      /\ LastSent(s).type \in {"ScanComplete", "ScanCancelled"}

\* ------------------------------------------------------------------- C2
\* C2: an invocation on a range start > end spawns no task (calls no probe)
\* and sends nothing but one Error event: its log is empty until the Error
\* is sent and is that single Error from then on, also after it returned.
C2_InvalidRangeOnlyError ==
  \A s \in Scans :
    (pc[s] # "idle" /\ range[s][1] > range[s][2]) =>
      /\ Spawned(s) = {}
      /\ pc[s] \in {"start", "error", "returned"}
      /\ sent[s] = IF pc[s] = "returned"
                   THEN <<MsgError(s, "Internal(Invalid IP Range)")>>
                   ELSE <<>>

\* C2 witness: an invalid-range invocation has returned after its Error
C2_Witness ==
  \E s \in Scans :
    /\ pc[s] = "returned"
    /\ range[s][1] > range[s][2]
    /\ Len(sent[s]) = 1
    /\ sent[s][1].type = "Error"

\* ------------------------------------------------------------------- C3
\* C3 (as claimed): if the token was cancelled when N tasks had been spawned
\* and the invocation was still running, then, once it has returned, it has
\* sent exactly N ScanUpdate events, its last event is ScanCancelled and it
\* has sent no ScanComplete.  (Stated for ranges below the whole address
\* space, probes that return, and a token cancelled before scan_range read
\* it for the last time at line 190.)
C3_CancelAfterNYieldsNUpdates ==
  \A s \in Scans :
    (pc[s] = "returned" /\ admittedAtCancel[s] >= 0 /\ ProbesReturn(s)
       /\ pcAtCancel[s] \in {"start", "check", "acquire", "join"}
       /\ range[s][1] <= range[s][2] /\ ~WholeAddressSpace(s)) =>
      /\ Len(Updates(s)) = admittedAtCancel[s]
      /\ LastSent(s).type = "ScanCancelled"
      /\ \A k \in 1 .. Len(sent[s]) : sent[s][k].type # "ScanComplete"

\* ------------------------------------------------------------------- C4
\* C4: at every instant, in every invocation, the tasks spawned and not yet
\* finished are at most the admission budget.
C4_InFlightWithinBudget ==
  \A s \in Scans : Cardinality(InFlight(s)) <= MaxConcurrentTasks

\* C4 witness: the budget is used up and the admission loop waits for a
\* permit with targets of the range still to admit
C4_Witness ==
  \E s \in Scans :
    /\ pc[s] = "acquire"
    /\ permits[s] = 0
    /\ Cardinality(InFlight(s)) = MaxConcurrentTasks

\* ------------------------------------------------------------------- C5
\* scan_range of invocation s is executing: entered and not yet returned
Executing(s) == pc[s] \in {"check", "acquire", "join", "cancelled", "complete", "error"}

\* C5 (as claimed): at most one invocation of scan_range executes at a time.
C5_AtMostOneScanActive ==
  \A s, t \in Scans : (Executing(s) /\ Executing(t)) => s = t

\* ------------------------------------------------------------------- C6
\* C6 (as claimed): a StopScan that reached the Bridge while invocation s was
\* active has set the token of s, and s, once returned, ended with
\* ScanCancelled.
C6_StopScanCancelsActiveScan ==
  \A s \in Scans :
    stopSeen[s] =>
      /\ cancelled[s]
      /\ (pc[s] = "returned" => LastSent(s).type = "ScanCancelled")

\* ------------------------------------------------------------------- C7
\* the range a start command asks for: <<start, end>>, or <<>> when the
\* command is no start command or its text does not parse
RequestedRange(c) ==
  IF c.type = "StartScanRange"
  THEN <<c.start, c.end>>
  ELSE IF c.type = "StartScan" /\ parse_range(c.text).ok
  THEN <<parse_range(c.text).start, parse_range(c.text).end>>
  ELSE <<>>

RECURSIVE RequestedRanges(_)
RequestedRanges(cs) ==
  IF cs = <<>>
  THEN <<>>
  ELSE IF RequestedRange(Head(cs)) = <<>>
  THEN RequestedRanges(Tail(cs))
  ELSE <<RequestedRange(Head(cs))>> \o RequestedRanges(Tail(cs))

\* the ranges of the invocations the Bridge has spawned, in spawning order
StartedRanges ==
  [k \in 1 .. Cardinality({s \in Scans : pc[s] # "idle"}) |-> range[k]]

\* C7 (as claimed): the two start forms are equivalent: the invocations the
\* Bridge has spawned are, in order, the ranges of the start commands it has
\* received, a StartScanRange(start, end) counting like a StartScan(text)
\* whose text parses to (start, end).
C7_StartFormsEquivalent == StartedRanges = RequestedRanges(handled)

\* ------------------------------------------------------------------- C8
\* C8: per invocation, what the relay has put on the outward channel followed
\* by what still waits in the engine's channel is exactly what the engine
\* sent: every event once, unchanged, in the order sent; and the Bridge's own
\* messages are not engine events.
C8_RelayVerbatim ==
  /\ \A s \in Scans :
       uiLog[s] \o SelectSeq(chan, LAMBDA m : m.scan = s) = sent[s]
  /\ \A k \in 1 .. Len(uiLog[0]) : uiLog[0][k].scan = 0

\* C8 witness: the relay has forwarded events of two invocations while the
\* engine's channel is full (the engines wait for the relay)
C8_Witness ==
  /\ Len(chan) = cap
  /\ \E s, t \in Scans : s # t /\ Len(uiLog[s]) >= 2 /\ Len(uiLog[t]) >= 1

\* ------------------------------------------------------------------- C9
\* C9: within one invocation only the last event sent can be a terminal event
\* (ScanComplete, ScanCancelled or Error): nothing is sent after one.
C9_TerminalIsLast ==
  \A s \in Scans :
    \A k \in 1 .. Len(sent[s]) :
      sent[s][k].type \in TerminalTypes => k = Len(sent[s])

\* C9 witness: a cancelled invocation has returned after ScanUpdate and
\* Progress events, its ScanCancelled last
C9_Witness ==
  \E s \in Scans :
    /\ pc[s] = "returned"
    /\ Len(Updates(s)) >= 2
    /\ Len(ProgressEvents(s)) >= 2
    /\ LastSent(s).type = "ScanCancelled"

\* ------------------------------------------------------------------ C10
\* C10 (as claimed): the Progress values of an invocation are each in
\* 0..100 and never decrease, and an invocation whose last event is
\* ScanComplete has 100 as its last Progress value.
C10_ProgressMonotoneTo100 ==
  \A s \in Scans :
    LET p == ProgressEvents(s)
    IN  /\ \A k \in 1 .. Len(p) : p[k].value \in 0 .. 100
        /\ \A j, k \in 1 .. Len(p) : j <= k => p[j].value <= p[k].value
        /\ (sent[s] # <<>> /\ LastSent(s).type = "ScanComplete" /\ Len(p) > 0)
             => p[Len(p)].value = 100

\* C10 holds of every range but the whole address space
C10_HoldsBelowWholeAddressSpace ==
  \A s \in Scans :
    ~WholeAddressSpace(s) =>
      LET p == ProgressEvents(s)
      IN  /\ \A k \in 1 .. Len(p) : p[k].value \in 0 .. 100
          /\ \A j, k \in 1 .. Len(p) : j <= k => p[j].value <= p[k].value
          /\ (sent[s] # <<>> /\ LastSent(s).type = "ScanComplete" /\ Len(p) > 0)
               => p[Len(p)].value = 100

\* ------------------------------------------------------------------ C11
\* C11 (as claimed): the k-th Progress value of an invocation, sent when
\* completed = k, is floor(k * 100 / total), total the size of the range.
C11_ProgressIsFloor ==
  \A s \in Scans :
    total_ips[s] > 0 =>
      \A k \in 1 .. Len(ProgressEvents(s)) :
        ProgressEvents(s)[k].value = (k * 100) \div total_ips[s]

\* the rest of C11 holds of every range but the whole address space:
\* a Progress of 100 is the one sent for completed = total, and an
\* invocation that spawned fewer tasks than the range has targets sent none
C11_HundredOnlyAtLastCompletion ==
  \A s \in Scans :
    (pc[s] \notin {"idle", "start"} /\ ~WholeAddressSpace(s)) =>
      \A k \in 1 .. Len(ProgressEvents(s)) :
        ProgressEvents(s)[k].value = 100 =>
          /\ k = total_ips[s]
          /\ Cardinality(Spawned(s)) = total_ips[s]

\* ------------------------------------------------------------ C12..C15
\* the positions of the ScanUpdate events in the log of invocation s
UpdateAt(s) == {k \in 1 .. Len(sent[s]) : sent[s][k].type = "ScanUpdate"}
\* what the provider answers for the target of the k-th event of s
AnswerAt(s, k) == net[sent[s][k].result.ip]
\* the place of port p in the table of well-known ports
TableIndex(p) == CHOOSE i \in 1 .. Len(COMMON_PORTS) : COMMON_PORTS[i] = p
PortProbes(calls) == {k \in 1 .. Len(calls) : calls[k].probe = "scan_port"}

\* C12: every ScanUpdate for a target whose ping returned without error and
\* whose resolve_mac returned an address has status Online and carries that
\* address, also when the ping returned false.
C12_ArpIsAuthoritative ==
  \A s \in Scans : \A k \in UpdateAt(s) :
    LET o == AnswerAt(s, k)
        r == sent[s][k].result
    IN  (o.fault # "blocking" /\ o.ping # "err" /\ o.mac = "some") =>
          /\ r.status = "Online"
          /\ r.mac = MacValue

\* C12 witness: a target that did not answer the ping but has a MAC was
\* reported Online with the MAC
C12_Witness ==
  \E s \in Scans : \E k \in UpdateAt(s) :
    /\ AnswerAt(s, k).ping = "false"
    /\ AnswerAt(s, k).mac = "some"
    /\ sent[s][k].result.status = "Online"
    /\ sent[s][k].result.mac = MacValue

\* C13: every ScanUpdate for a target whose resolve_mac returned no address
\* has status Online, without MAC and vendor, if the ping returned true, and
\* status Offline if the ping returned false.
C13_PingDecidesWithoutMac ==
  \A s \in Scans : \A k \in UpdateAt(s) :
    LET o == AnswerAt(s, k)
        r == sent[s][k].result
    IN  (o.fault # "blocking" /\ o.mac = "none") =>
          /\ o.ping = "true" =>
               (r.status = "Online" /\ r.mac = "None" /\ r.vendor = "None")
          /\ o.ping = "false" => r.status = "Offline"

\* C13 witness: one invocation reported a pinging target without MAC as
\* Online and a silent target without MAC as Offline
C13_Witness ==
  \E s \in Scans : \E j, k \in UpdateAt(s) :
    /\ AnswerAt(s, j).ping = "true" /\ AnswerAt(s, j).mac = "none"
    /\ sent[s][j].result.status = "Online" /\ sent[s][j].result.mac = "None"
    /\ AnswerAt(s, k).ping = "false" /\ AnswerAt(s, k).mac = "none"
    /\ sent[s][k].result.status = "Offline"

\* C14: every ScanUpdate for a target whose resolve_mac returned an error
\* has status SystemError with that error and no open ports, whatever the
\* ping returned, and the task of such a target calls no port probe.
C14_ArpErrorIsSystemError ==
  \A s \in Scans :
    /\ \A k \in UpdateAt(s) :
         LET o == AnswerAt(s, k)
             r == sent[s][k].result
         IN  (o.fault # "blocking" /\ o.ping # "err" /\ o.mac = "err") =>
               /\ r.status = "SystemError"
               /\ r.error = o.error
               /\ r.open_ports = <<>>
    /\ \A ip \in Addr :
         (task[s][ip] = "done" /\ net[ip].fault # "blocking"
            /\ net[ip].ping # "err" /\ net[ip].mac = "err") =>
           PortProbes(Pipeline(ip, net[ip]).calls) = {}

\* C14 witness: one invocation reported SystemError for a target that
\* answered the ping and for one that did not, SendARP failing for both
C14_Witness ==
  \E s \in Scans : \E j, k \in UpdateAt(s) :
    /\ AnswerAt(s, j).ping = "true" /\ AnswerAt(s, j).mac = "err"
    /\ AnswerAt(s, k).ping = "false" /\ AnswerAt(s, k).mac = "err"
    /\ sent[s][j].result.status = "SystemError"
    /\ sent[s][k].result.status = "SystemError"
    /\ sent[s][j].result.error = "Win32(SendARP failed)"

\* C15: the open_ports of every Online ScanUpdate are in table order,
\* without repetition, and are exactly the table's ports whose probe
\* answered true.
C15_OpenPortsInTableOrder ==
  \A s \in Scans : \A k \in UpdateAt(s) :
    LET ports == sent[s][k].result.open_ports
    IN  sent[s][k].result.status = "Online" =>
          /\ \A i, j \in 1 .. Len(ports) :
               i < j => TableIndex(ports[i]) < TableIndex(ports[j])
          /\ {ports[i] : i \in 1 .. Len(ports)} =
               {COMMON_PORTS[i] : i \in 1 .. Len(COMMON_PORTS)} \cap AnswerAt(s, k).open

\* C15 witness: a target with only 443 and 22 open was reported with [22, 443]
C15_Witness ==
  \E s \in Scans : \E k \in UpdateAt(s) :
    /\ AnswerAt(s, k).open = {443, 22}
    /\ sent[s][k].result.open_ports = <<22, 443>>

\* ------------------------------------------------------------------ C19
\* C19: within one invocation no two ScanUpdate events are for the same
\* address, and the status of every ScanUpdate is Online, Offline or
\* SystemError, never Scanning.
C19_OneFinishedResultPerTarget ==
  \A s \in Scans :
    /\ \A j, k \in UpdateAt(s) :
         sent[s][j].result.ip = sent[s][k].result.ip => j = k
    /\ \A k \in UpdateAt(s) :
         sent[s][k].result.status \in {"Online", "Offline", "SystemError"}

\* C19 witness: an invocation has returned after one ScanUpdate of each
\* status, for three different targets
C19_Witness ==
  \E s \in Scans :
    /\ pc[s] = "returned"
    /\ \E i, j, k \in UpdateAt(s) :
         /\ sent[s][i].result.status = "Online"
         /\ sent[s][j].result.status = "Offline"
         /\ sent[s][k].result.status = "SystemError"

\* ------------------------------------------------------------------ C16
\* C16 (as claimed): once the token is cancelled no further task is spawned:
\* the tasks spawned stay those that were spawned when it was cancelled.
C16_NoAdmissionAfterCancel ==
  \A s \in Scans :
    (cancelled[s] /\ admittedAtCancel[s] >= 0) =>
      Cardinality(Spawned(s)) = admittedAtCancel[s]

\* ------------------------------------------------------------------ C17
\* C17 (as claimed): when an invocation sends ScanCancelled, every task it
\* spawned has ended and its ScanUpdate is in the log before the
\* ScanCancelled.
C17_AdmittedWorkReportedBeforeCancelled ==
  \A s \in Scans : \A k \in 1 .. Len(sent[s]) :
    sent[s][k].type = "ScanCancelled" =>
      \A ip \in Spawned(s) :
        /\ task[s][ip] = "done"
        /\ \E j \in 1 .. (k - 1) :
             sent[s][j].type = "ScanUpdate" /\ sent[s][j].result.ip = ip

\* C17 holds when no probe called for a target of the range panics
C17_HoldsWhenProbesReturn ==
  \A s \in Scans : \A k \in 1 .. Len(sent[s]) :
    (sent[s][k].type = "ScanCancelled" /\ ProbesReturn(s)) =>
      \A ip \in Spawned(s) :
        /\ task[s][ip] = "done"
        /\ \E j \in 1 .. (k - 1) :
             sent[s][j].type = "ScanUpdate" /\ sent[s][j].result.ip = ip

\* ------------------------------------------------------------------ C18
\* the task of target ip panics: in the spawn_blocking closure, or in the
\* port stage, which only an online target reaches
Panics(ip) ==
  \/ net[ip].fault = "blocking"
  \/ /\ net[ip].fault = "ports"
     /\ BlockingTask(net[ip]).kind = "Ok"
     /\ BlockingTask(net[ip]).is_online

\* C18 (as claimed): an invocation that ran to its end without cancellation
\* has sent a ScanUpdate for every target of the range, with status
\* SystemError for every target whose task panicked, and its terminal event.
C18_PanicBecomesSystemError ==
  \A s \in Scans :
    (pc[s] = "returned" /\ range[s][1] <= range[s][2] /\ ~cancelled[s]
       /\ ~WholeAddressSpace(s)) =>
      /\ UpdateIps(s) = Targets(s)
      /\ \A k \in UpdateAt(s) :
           Panics(sent[s][k].result.ip) => sent[s][k].result.status = "SystemError"
      /\ LastSent(s).type = "ScanComplete"

\* a panic in the spawn_blocking closure is converted (scanner.rs:172-178)
C18_HoldsOfBlockingStage ==
  \A s \in Scans : \A ip \in Addr :
    (task[s][ip] = "done" /\ net[ip].fault = "blocking") =>
      \E k \in UpdateAt(s) :
        /\ sent[s][k].result.ip = ip
        /\ sent[s][k].result.status = "SystemError"

\* ------------------------------------------------------------------ C20
\* C20 (as claimed): a valid-range invocation ends with ScanCancelled if the
\* admission loop stopped because of the token, that is with targets of the
\* range left unspawned, and with ScanComplete otherwise, also when the
\* token was cancelled after every target had been spawned.
C20_CancelledIffAdmissionStopped ==
  \A s \in Scans :
    (pc[s] = "returned" /\ range[s][1] <= range[s][2] /\ ~WholeAddressSpace(s)) =>
      LastSent(s).type =
        IF Spawned(s) # Targets(s) THEN "ScanCancelled" ELSE "ScanComplete"

\* what the code does: the terminal event follows the token as read after the
\* last join (scanner.rs:190), cancelled before that read or not
C20_CancelledIffTokenSetAtEnd ==
  \A s \in Scans :
    (pc[s] = "returned" /\ range[s][1] <= range[s][2]) =>
      LastSent(s).type =
        IF cancelled[s] /\ pcAtCancel[s] # "complete"
        THEN "ScanCancelled" ELSE "ScanComplete"


\* ---- the range grammar
\* the address the end of a grammar text denotes: the start for "A", B for
\* "A-B", the start with its last octet replaced by N for "A-N"
DenotedEnd(form, a, b) ==
  IF form = "A"
  THEN a
  ELSE IF form = "A-B"
  THEN b
  ELSE a - (a % (OctetMax + 1)) + b

ParsedEnd == DenotedEnd(parsed.form, parsed.start, parsed.end)
ParsedGrammar == parsed.form \in Forms
BlanksAtSeparator == parsed.pads[2] + parsed.pads[3]
NoBlanks == \A k \in 1 .. 4 : parsed.pads[k] = 0
SamePrefix(a, b) == a \div (OctetMax + 1) = b \div (OctetMax + 1)

\* C21: on a text of the grammar, blanks around the separator or none,
\* parse_range returns the start and the end the text denotes whenever that
\* end is not below the start: (A, A) for "A", (A, B) for "A-B", (A, A with
\* its last octet replaced by N) for "A-N".
C21_ParseAgreesWithGrammar ==
  (ParsedGrammar /\ ParsedEnd >= parsed.start)
    => parsed.res = ParseOk(parsed.start, ParsedEnd)

C21_Witness ==
  /\ parsed.form = "A-N"
  /\ parsed.pads[2] = 1 /\ parsed.pads[3] = 1
  /\ ParsedEnd > parsed.start
  /\ parsed.res.ok
  /\ parsed.res.end = ParsedEnd

\* C22: a text whose end, as a full address or as a last octet, denotes an
\* address below the start is refused: the result is an error and carries
\* no pair, neither swapped nor clamped.
C22_EndBelowStartIsError ==
  (ParsedGrammar /\ ParsedEnd < parsed.start)
    => /\ ~parsed.res.ok
       /\ parsed.res = ParseErr("End IP cannot be less than Start IP")

C22_Witness ==
  /\ parsed.form = "A-N"
  /\ ParsedEnd < parsed.start
  /\ ~parsed.res.ok

\* C23: for a start and an end with the same leading octets and the end not
\* below the start, the text "start-end" and the text "start-<last octet of
\* end>", written without blanks, both parse to exactly (start, end).
C23_GeneratedRangeRoundTrip ==
  (/\ parsed.form \in {"A-B", "A-N"}
   /\ NoBlanks
   /\ SamePrefix(parsed.start, ParsedEnd)
   /\ ParsedEnd >= parsed.start)
    => /\ parsed.res = ParseOk(parsed.start, ParsedEnd)
       /\ parse_range(ShowIpv4(parsed.start) \o <<"-">> \o ShowIpv4(ParsedEnd))
            = ParseOk(parsed.start, ParsedEnd)
       /\ parse_range(ShowIpv4(parsed.start) \o <<"-">>
                        \o ShowDecimal(ParsedEnd % (OctetMax + 1)))
            = ParseOk(parsed.start, ParsedEnd)

C23_Witness ==
  /\ parsed.form = "A-B"
  /\ NoBlanks
  /\ SamePrefix(parsed.start, parsed.end)
  /\ parsed.end > parsed.start
  /\ parsed.res = ParseOk(parsed.start, parsed.end)


\* ---- the Bridge's command loop
\* the StartScan commands the Bridge has taken whose text does not parse,
\* and those whose text parses
FailedStarts ==
  SelectSeq(handled, LAMBDA c : c.type = "StartScan" /\ ~parse_range(c.text).ok)
ParsedStarts ==
  SelectSeq(handled, LAMBDA c : c.type = "StartScan" /\ parse_range(c.text).ok)

\* C24: every StartScan whose text does not parse puts exactly one Error,
\* carrying the parser's error, on the outward channel and starts nothing:
\* the Bridge's own events are these Errors, one per failed command in
\* order, and the invocations of scan_range are as many as the StartScan
\* commands that parsed, whether they came before or after a failed one.
C24_ParseFailureIsOneError ==
  /\ uiLog[0] = [k \in 1 .. Len(FailedStarts) |->
                   MsgError(0, parse_range(FailedStarts[k].text).err)]
  /\ Cardinality({s \in Scans : pc[s] # "idle"}) = Len(ParsedStarts)
  /\ \A s \in Scans : pc[s] = "idle" => uiLog[s] = <<>>

C24_Witness ==
  /\ Len(handled) = 2
  /\ handled[1].type = "StartScan" /\ ~parse_range(handled[1].text).ok
  /\ handled[2].type = "StartScan" /\ parse_range(handled[2].text).ok
  /\ Len(uiLog[0]) = 1 /\ uiLog[0][1].type = "Error"
  /\ Cardinality({s \in Scans : pc[s] # "idle"}) = 1


\* ---- the port table
TablePorts == {COMMON_PORTS[k] : k \in 1 .. Len(COMMON_PORTS)}

\* C25: port_label returns, for every 16-bit port, the label of the table
\* entry with that port number and "Unknown" for a port the table does not
\* have; the table's port numbers are non-zero, pairwise distinct and
\* ascending, so at most one entry has the port.
C25_PortLabelAgreesWithTable ==
  /\ Len(COMMON_LABELS) = Len(COMMON_PORTS)
  /\ \A k \in 1 .. Len(COMMON_PORTS) : COMMON_PORTS[k] \in 1 .. U16Max
  /\ \A j, k \in 1 .. Len(COMMON_PORTS) : j < k => COMMON_PORTS[j] < COMMON_PORTS[k]
  /\ looked # NoLookup
       => /\ \A k \in 1 .. Len(COMMON_PORTS) :
               COMMON_PORTS[k] = looked.port => looked.label = COMMON_LABELS[k]
          /\ looked.port \notin TablePorts => looked.label = "Unknown"

C25_Witness ==
  /\ looked.port = 443
  /\ looked.label = "HTTPS"


\* ------------------------------------------------------------ C28..C30
\* the probes the task of target ip calls, and its port probes in call order
CallsOf(ip) == Pipeline(ip, net[ip]).calls
PortsProbed(ip) ==
  LET pp == SelectSeq(CallsOf(ip), LAMBDA c : c.probe = "scan_port")
  IN  [k \in 1 .. Len(pp) |-> pp[k].port]

\* C28: every ScanUpdate for a target whose ping returned an error has
\* status SystemError with that error, no MAC, hostname or vendor and no open
\* ports, and the task of such a target calls ping and nothing after it.
C28_PingErrorIsSystemError ==
  \A s \in Scans : \A k \in UpdateAt(s) :
    LET o == AnswerAt(s, k)
        r == sent[s][k].result
    IN  (o.fault # "blocking" /\ o.ping = "err") =>
          /\ r.status = "SystemError"
          /\ r.error = o.error
          /\ r.mac = "None" /\ r.hostname = "None" /\ r.vendor = "None"
          /\ r.open_ports = <<>>
          /\ CallsOf(r.ip) = ProbeCalls(<<"ping">>)

\* C28 witness: a target whose ping failed was reported SystemError with the
\* ping's error, although its provider would have answered the other probes
C28_Witness ==
  \E s \in Scans : \E k \in UpdateAt(s) :
    /\ AnswerAt(s, k).ping = "err"
    /\ AnswerAt(s, k).vendor = "some" /\ AnswerAt(s, k).open # {}
    /\ sent[s][k].result.status = "SystemError"
    /\ sent[s][k].result.error = "Internal(Simulated Failure)"

\* C29: every ScanUpdate with status Offline or SystemError has no open
\* ports and its task called no scan_port; the task of every target reported
\* Online called scan_port once for each port of the table, in table order.
\* A task that has run calls scan_port in table order and never twice for
\* a port, also when a call does not return.
C29_PortPhaseOnlyWhenOnline ==
  \A s \in Scans :
    /\ \A k \in UpdateAt(s) :
         LET r == sent[s][k].result
         IN  /\ r.status \in {"Offline", "SystemError"} =>
                  (r.open_ports = <<>> /\ PortsProbed(r.ip) = <<>>)
             /\ r.status = "Online" => PortsProbed(r.ip) = COMMON_PORTS
    /\ \A ip \in Addr :
         task[s][ip] = "done" =>
           PortsProbed(ip) = SubSeq(COMMON_PORTS, 1, Len(PortsProbed(ip)))

\* C29 witness: one invocation reported a target Offline without ports
\* although its port 80 would answer, and a target Online after probing the
\* whole table
C29_Witness ==
  \E s \in Scans : \E j, k \in UpdateAt(s) :
    /\ sent[s][j].result.status = "Offline"
    /\ AnswerAt(s, j).open # {}
    /\ sent[s][j].result.open_ports = <<>>
    /\ sent[s][k].result.status = "Online"
    /\ Len(PortsProbed(sent[s][k].result.ip)) = Len(COMMON_PORTS)

\* the status ping and resolve_mac decide, when both returned
DecidedStatus(o) ==
  IF o.mac = "some" \/ o.ping = "true" THEN "Online" ELSE "Offline"

\* C30: for a target whose ping and resolve_mac returned, the status of its
\* ScanUpdate is the one ping and resolve_mac decide, whatever the lookups
\* returned; a resolve_hostname that returned an error leaves the hostname
\* absent and the rest of the result as with a lookup that found nothing,
\* and a resolve_vendor that returned nothing leaves the vendor absent.
C30_LookupsNeverEscalate ==
  \A s \in Scans : \A k \in UpdateAt(s) :
    LET o == AnswerAt(s, k)
        r == sent[s][k].result
    IN  (o.fault # "blocking" /\ o.ping # "err" /\ o.mac # "err") =>
          /\ r.status = DecidedStatus(o)
          /\ r.error = "None"
          /\ o.host \in {"err", "none"} => r.hostname = "None"
          /\ o.host = "err" => r = Pipeline(r.ip, [o EXCEPT !.host = "none"]).result
          /\ (o.mac = "some" /\ o.vendor = "none") => r.vendor = "None"

\* C30 witness: one invocation reported a target Online and a target
\* Offline, resolve_hostname having returned an error for both
C30_Witness ==
  \E s \in Scans : \E j, k \in UpdateAt(s) :
    /\ AnswerAt(s, j).host = "err" /\ AnswerAt(s, k).host = "err"
    /\ sent[s][j].result.status = "Online"
    /\ sent[s][k].result.status = "Offline"
    /\ sent[s][j].result.hostname = "None"
    /\ sent[s][k].result.hostname = "None"


\* ------------------------------------------------------------ C26, C27
Pressed(k) == app_last.kind = "Input" /\ app_last.key = k
QuitKeys == {KeyChar("q"), Key("Esc")}

\* C26: after Enter pressed in Editing mode the App is in Normal mode with
\* scan_state Scanning, no results, progress 0 and no error; a StartScan
\* carrying the input text was given to the command channel, which took it if
\* it had room; the input text is the one before the key.
C26_EnterStartsScan ==
  (Pressed(Key("Enter")) /\ app_last.before.input_mode = "Editing") =>
    /\ app.input_mode = "Normal"
    /\ app.scan_state = "Scanning"
    /\ app.results = <<>>
    /\ app.progress = 0
    /\ app.error = NoneString
    /\ app.input = app_last.before.input
    /\ app_last.offered = CmdStartScan(app.input)
    /\ app_last.accepted => cmdq[Len(cmdq)] = CmdStartScan(app.input)

\* C26 witness: Enter was pressed in Editing mode with a result and an error
\* on the screen, and the App is Scanning with neither, the command queued
C26_Witness ==
  /\ Pressed(Key("Enter"))
  /\ app_last.before.input_mode = "Editing"
  /\ app_last.before.results # <<>>
  /\ app_last.before.error.some
  /\ app.scan_state = "Scanning" /\ app.results = <<>> /\ ~app.error.some
  /\ cmdq = <<CmdStartScan(app.input)>>

\* C27: should_quit is set only by 'q' or Esc pressed in Normal mode with
\* the detail popup closed; Esc in Editing mode changes the mode to Normal
\* and nothing else; Esc or 'q' with the popup open closes the popup and
\* changes nothing else; none of the three offers a command.
C27_QuitOnlyFromNormal ==
  /\ app.should_quit =>
       /\ app_last.kind = "Input" /\ app_last.key \in QuitKeys
       /\ app_last.before.input_mode = "Normal"
       /\ ~app_last.before.show_detail
  /\ (Pressed(Key("Esc")) /\ app_last.before.input_mode = "Editing") =>
       /\ app = [app_last.before EXCEPT !.input_mode = "Normal"]
       /\ app_last.offered = NoCmd
  /\ (app_last.kind = "Input" /\ app_last.key \in QuitKeys
        /\ app_last.before.input_mode = "Normal" /\ app_last.before.show_detail) =>
       /\ app = [app_last.before EXCEPT !.show_detail = FALSE]
       /\ app_last.offered = NoCmd

\* C27 witness: 'q' was pressed with the popup open and the App goes on, the
\* popup closed
C27_Witness ==
  /\ Pressed(KeyChar("q"))
  /\ app_last.before.show_detail
  /\ ~app.show_detail
  /\ ~app.should_quit


\* ------------------------------------------------------------------ C31
\* the admission loop of invocation s has targets left to admit
Admitting(s) == pc[s] \in {"check", "acquire"}
\* a task of s has finished and its Progress has not been sent
ProgressPending(s) == joined[s] < Cardinality(Finished(s))

\* C31 (as claimed): for a range larger than the admission budget the
\* Progress of a finished pipeline does not wait for the admission of the
\* remaining targets: whenever a task has finished, its Progress is unsent
\* and the channel has room, the Progress can be sent, also while the
\* admission loop still has targets to admit.
C31_ProgressNotHeldByAdmission ==
  \A s \in Scans :
    (/\ Cardinality(Targets(s)) > MaxConcurrentTasks
     /\ Admitting(s) /\ ProgressPending(s) /\ Room) => ENABLED JoinNext(s)

\* what the code does instead: no Progress is sent while the admission loop
\* runs, so every Progress follows the admission of the last target
C31_ProgressFollowsAdmissionLoop ==
  \A s \in Scans :
    (pc[s] \in {"start", "check", "acquire"}) => ProgressEvents(s) = <<>>


\* ------------------------------------------------------------------ C32
\* how many of the first p events of invocation s are of the given type
CountUpTo(s, p, type) == Cardinality({j \in 1 .. p : sent[s][j].type = type})

\* C32 (as claimed): when the k-th Progress of an invocation is sent, at
\* least k ScanUpdate events of that invocation have been sent before it.
C32_ResultsPrecedeProgress ==
  \A s \in Scans : \A p \in 1 .. Len(sent[s]) :
    sent[s][p].type = "Progress" =>
      CountUpTo(s, p, "Progress") <= CountUpTo(s, p, "ScanUpdate")

\* the same for the invocations whose probe calls all return
C32_HoldsWhenProbesReturn ==
  \A s \in Scans : \A p \in 1 .. Len(sent[s]) :
    (ProbesReturn(s) /\ sent[s][p].type = "Progress") =>
      CountUpTo(s, p, "Progress") <= CountUpTo(s, p, "ScanUpdate")


\* ------------------------------------------------------------------ C33
\* the terminal event of invocation s has been sent
TerminalSent(s) == Terminals(s) # <<>>

\* an invocation has been called on a range start <= end with probes that
\* all return, and its terminal event is not sent yet
Pending(s) ==
  /\ Active(s) \/ pc[s] = "panicked"
  /\ range[s][1] <= range[s][2]
  /\ ProbesReturn(s)
  /\ ~TerminalSent(s)

\* C33 (as claimed): with the events received and every probe returning,
\* the invocation on a range start <= end, cancelled or not, eventually sends
\* its terminal event; it does so from every point it has reached, so it
\* does not stay in the wait for a permit.
C33_EveryScanTerminates == Pending(1) ~> TerminalSent(1)

\* C33 holds of every range but the whole address space
C33_HoldsBelowWholeAddressSpace ==
  (Pending(1) /\ ~WholeAddressSpace(1)) ~> TerminalSent(1)


\* ------------------------------------------------------------------ C34
\* the invocation can take a step: its own future or one of its tasks
CanGoOn(s) == ENABLED EngineButJoinNext(s) \/ ENABLED JoinNextTaken(s)
\* the events an invocation on its range sends when it runs to the end
EventsOf(s) == 2 * Cardinality(Targets(s)) + 1

\* awaited alone, invocation s is never stuck before it returns, and when it
\* has returned everything it sent is in the channel, a ScanComplete last
AwaitedToTheEnd(s) ==
  /\ Active(s) => CanGoOn(s)
  /\ pc[s] = "returned" =>
       /\ chan = sent[s]
       /\ LastSent(s).type = "ScanComplete"
       /\ ProbesReturn(s) =>
            /\ Len(Updates(s)) = Cardinality(Targets(s))
            /\ Len(ProgressEvents(s)) = Cardinality(Targets(s))

\* C34 (as claimed): for every range start <= end, scan_range awaited
\* without a receiver runs to its end and returns with all its events in the
\* channel.
C34_AwaitWithoutReceiver ==
  (pc[1] # "idle" /\ range[1][1] <= range[1][2]) => AwaitedToTheEnd(1)

\* C34 (amended): the same for every range whose events, one ScanUpdate and
\* one Progress for each address and the terminal event, are not more than
\* the capacity of the channel.
C34_AwaitWithinCapacity ==
  (pc[1] # "idle" /\ range[1][1] <= range[1][2] /\ EventsOf(1) <= cap)
    => AwaitedToTheEnd(1)

\* C34 witness: the invocation has returned with a ScanUpdate, a Progress
\* and a ScanComplete in the channel, which is full
C34_Witness ==
  /\ pc[1] = "returned"
  /\ Len(chan) = cap
  /\ chan = sent[1]
  /\ chan[1].type = "ScanUpdate" /\ chan[2].type = "Progress"
  /\ chan[3].type = "ScanComplete"


\* ------------------------------------------------------------------ C35
\* invocation s has made its Semaphore (scanner.rs:67)
SemaphoreMade(s) ==
  /\ pc[s] \in {"check", "acquire", "join", "complete", "cancelled", "returned"}
  /\ range[s][1] <= range[s][2]

\* C35: once an invocation has made its Semaphore, the free permits and the
\* admitted tasks that have not ended are together the admission budget in
\* every state, whatever way the tasks end (Online, Offline, SystemError or
\* a panic), and all permits are free when the terminal event is sent.
C35_PermitsConserved ==
  \A s \in Scans :
    SemaphoreMade(s) =>
      /\ permits[s] + Cardinality(InFlight(s)) = MaxConcurrentTasks
      /\ permits[s] \in 0 .. MaxConcurrentTasks
      /\ pc[s] \in {"complete", "cancelled", "returned"} =>
           permits[s] = MaxConcurrentTasks

\* C35 witness: an invocation over more targets than the budget has sent
\* its terminal event with all permits free, one task having sent a result
\* and one having ended in a panic without one
C35_Witness ==
  \E s \in Scans :
    /\ pc[s] = "returned"
    /\ Cardinality(Spawned(s)) > MaxConcurrentTasks
    /\ permits[s] = MaxConcurrentTasks
    /\ \E ip \in Spawned(s) : ~Pipeline(ip, net[ip]).sent
    /\ Updates(s) # <<>>


\* ------------------------------------------------------------------ C36
\* C36 (as claimed): for every range start <= end, the whole address space
\* included, the invocation gets past the computation of total_ips without a
\* fault and total_ips is the number of addresses end - start + 1.
C36_TotalIsAddressCount ==
  \A s \in Scans :
    (pc[s] \notin {"idle", "start"} /\ range[s][1] <= range[s][2]) =>
      /\ pc[s] # "panicked"
      /\ total_ips[s] = range[s][2] - range[s][1] + 1

\* C36 holds of every range but the whole address space
C36_HoldsBelowWholeAddressSpace ==
  \A s \in Scans :
    (pc[s] \notin {"idle", "start"} /\ range[s][1] <= range[s][2]
       /\ ~WholeAddressSpace(s)) =>
      /\ pc[s] # "panicked"
      /\ total_ips[s] = range[s][2] - range[s][1] + 1


\* ------------------------------------------------------------------ C37
\* the separators of the text parse_range was called on
Separators == {k \in 1 .. Len(parsed.text) : parsed.text[k] = "-"}

\* C37 (as claimed): every text outside the grammar is refused, also one
\* that goes on with a separator and a further segment after a text of the
\* form "A-B" or "A-N", the empty text and an end that is neither an address
\* nor a byte.
C37_RejectsOutsideGrammar ==
  parsed.form = "other" => ~parsed.res.ok

\* C37 holds of the texts with at most one separator
C37_HoldsOfOneSeparator ==
  (parsed.form = "other" /\ Cardinality(Separators) <= 1) => ~parsed.res.ok


\* ------------------------------------------------------------------ C38
\* C38 (the parser's part): a pair parse_range returns has start <= end
C38_ParsedPairOrdered ==
  parsed.res.ok => parsed.res.start <= parsed.res.end

\* C38: every pair parse_range returns for a StartScan text has start <= end,
\* so an invocation started by the Bridge has such a range, never takes the
\* engine's invalid-range path and sends no Error; the Errors on the outward
\* channel are the Bridge's own, one for each text that did not parse.
C38_TextualScanNeverInvalidRange ==
  /\ \A k \in 1 .. Len(handled) :
       LET r == parse_range(handled[k].text)
       IN  (handled[k].type = "StartScan" /\ r.ok) => r.start <= r.end
  /\ \A s \in Scans :
       /\ pc[s] # "error"
       /\ pc[s] # "idle" => range[s][1] <= range[s][2]
       /\ \A k \in 1 .. Len(sent[s]) : sent[s][k].type # "Error"
       /\ \A k \in 1 .. Len(uiLog[s]) : uiLog[s][k].type # "Error"
  /\ Len(uiLog[0]) = Len(FailedStarts)

\* C38 witness: the Bridge refused a text whose end is below its start with
\* an Error of its own, and a scan started from another text has returned
\* without any Error
C38_Witness ==
  /\ \E k \in 1 .. Len(handled) :
       /\ handled[k].type = "StartScan"
       /\ parse_range(handled[k].text).err = "End IP cannot be less than Start IP"
  /\ Len(uiLog[0]) = 1
  /\ \E s \in Scans :
       /\ pc[s] = "returned"
       /\ range[s][1] < range[s][2]
       /\ LastSent(s).type = "ScanComplete"


\* ------------------------------------------------------------------ C39
Received(type) == app_last.kind = "Bridge" /\ app_last.msg.type = type
\* the places of address ip in a list of results
PlacesOf(rs, ip) == {k \in 1 .. Len(rs) : rs[k].ip = ip}
\* rs2 holds the entries of rs, in ascending order of address
SortedFrom(rs, rs2) ==
  /\ Len(rs2) = Len(rs)
  /\ {rs2[k] : k \in 1 .. Len(rs2)} = {rs[k] : k \in 1 .. Len(rs)}
  /\ \A j, k \in 1 .. Len(rs2) : j < k => rs2[j].ip <= rs2[k].ip

\* C39: the results of the App never hold two entries for one address; a
\* ScanUpdate for an address in the list takes the place of its entry and
\* one for another address is appended; the list changes by a ScanUpdate, by
\* the sort on ScanComplete or by the clear of start_scan, and by nothing
\* else.
C39_OneEntryPerAddress ==
  LET old == app_last.before.results
      new == app.results
  IN  /\ \A j, k \in 1 .. Len(new) : new[j].ip = new[k].ip => j = k
      /\ Received("ScanUpdate") =>
           LET r == app_last.msg.result
               at == PlacesOf(old, r.ip)
           IN  IF at = {}
               THEN new = Append(old, r)
               ELSE /\ Len(new) = Len(old)
                    /\ \A k \in 1 .. Len(old) :
                         new[k] = IF k \in at THEN r ELSE old[k]
      /\ Received("ScanComplete") => SortedFrom(old, new)
      /\ new # old =>
           \/ Received("ScanUpdate")
           \/ Received("ScanComplete")
           \/ /\ Pressed(Key("Enter")) /\ app_last.before.input_mode = "Editing"
              /\ new = <<>>

\* C39 witness: with two addresses in the list, a ScanUpdate for the first
\* of them with another status has taken the place of its entry
C39_Witness ==
  /\ Received("ScanUpdate")
  /\ Len(app_last.before.results) = 2
  /\ app_last.before.results[1].ip = app_last.msg.result.ip
  /\ app_last.before.results[1] # app_last.msg.result
  /\ Len(app.results) = 2
  /\ app.results[1] = app_last.msg.result


\* ------------------------------------------------------------------ C40
\* start_scan has just run: Enter was pressed in Editing mode
StartScanRan == Pressed(Key("Enter")) /\ app_last.before.input_mode = "Editing"

\* C40 (as claimed): whenever start_scan has set scan_state to Scanning, its
\* StartScan command was taken by the command channel, also when the channel
\* was full at the key press.
C40_ScanningOnlyIfAccepted ==
  (StartScanRan /\ app.scan_state = "Scanning") => app_last.accepted

\* what the code does: scan_state is Scanning after start_scan whether the
\* command was taken or not, and it is not taken exactly when the channel is
\* full
C40_ScanningWhateverTrySend ==
  StartScanRan =>
    /\ app.scan_state = "Scanning"
    /\ ~app_last.accepted => Len(cmdq) = CmdChanCap

====
